---- MODULE Spec2Model ----
(***************************************************************************)
(* Model of the teaching CPU of oilmonegov/cpu-simulation:                 *)
(*   SimulationEngine (cycle stepper, cache hierarchy, bus log) and the    *)
(*   instruction generators of the instruction set.                        *)
(*                                                                         *)
(* Numbers.  The engine computes with JavaScript numbers.  Every literal   *)
(* of an instruction is an integer, but DIV computes val1 / val2 without   *)
(* rounding, so register, memory, cache and bus values are modelled as     *)
(* exact fractions [num, den] in lowest terms with den > 0 (the integer n  *)
(* is [num |-> n, den |-> 1]).  Rounding error of later arithmetic on a    *)
(* non-integer quotient is not modelled.  A task record that lacks a field *)
(* stands for the JavaScript object in which the field is undefined.       *)
(***************************************************************************)
EXTENDS Integers, Sequences, FiniteSets, TLC

(***************************************************************************)
(* Bounds of the model (not program constants).                            *)
(***************************************************************************)
\* setExample() calls per behaviour
MaxLoads == 2
\* reset() calls per behaviour
MaxResets == 1
\* step() calls made after the program is exhausted
MaxExtraCalls == 1
\* setTimeout callbacks that fire per behaviour
MaxTimerFires == 1
\* setSpeed() calls per behaviour
MaxSpeedChanges == 1
\* instructions of a program of LOAD/STORE instructions
MaxProgLen == 2
\* setExample() calls that restart such a program
MaxRestarts == 1
\* loads of a program that only reads memory
MaxReads == 4
\* largest clock cycle at which the player of a game still acts
MaxGameClock == 6
\* number of startGame() and reset() calls on the game
MaxGameStarts == 1
\* highest level at which task results are still submitted
MaxGameLevel == 2
\* togglePause() calls on the game
MaxPauses == 1
\* tasks in the queue when generateNewTask() is still called from outside
MaxQueue == 2
\* largest clock cycle at which advanceClock() is still called
MaxTickClock == 13
\* tasks generated in one run of the submission game
MaxTasks == 3

(***************************************************************************)
(* Program constants.                                                      *)
(***************************************************************************)
MemSize == 256
L1Size == 8
L2Size == 16
L3Size == 32
CalcStoreAddress == 256
TrafficStoreAddress == 512

(***************************************************************************)
(* JavaScript numbers as fractions.                                        *)
(***************************************************************************)
Abs(n) == IF n < 0 THEN -n ELSE n

RECURSIVE Gcd(_, _)
Gcd(a, b) == IF b = 0 THEN a ELSE Gcd(b, a % b)

Sign(n) == IF n < 0 THEN -1 ELSE 1

\* the fraction n/d (d # 0) in lowest terms with a positive denominator
Frac(n, d) ==
  LET g == Gcd(Abs(n), Abs(d))
  IN  [num |-> Sign(d) * (n \div g), den |-> Abs(d) \div g]

Num(n) == [num |-> n, den |-> 1]
Zero == Num(0)
IsInt(x) == x.den = 1
NumAdd(x, y) == Frac(x.num * y.den + y.num * x.den, x.den * y.den)
NumSub(x, y) == Frac(x.num * y.den - y.num * x.den, x.den * y.den)
NumMul(x, y) == Frac(x.num * y.num, x.den * y.den)
\* x / y for y # 0
NumDiv(x, y) == Frac(x.num * y.den, x.den * y.num)
\* JavaScript truthiness of a number: 0 is falsy
Truthy(x) == x.num # 0

(***************************************************************************)
(* Instructions (types/cpu.ts).  An operand is a number literal, a         *)
(* register name or undefined; a missing destination is "", a missing      *)
(* address is NoAddress.                                                   *)
(***************************************************************************)
NoAddress == -1
Lit(n) == [k |-> "num", n |-> n, r |-> ""]
Ref(r) == [k |-> "reg", n |-> 0, r |-> r]
NoOperand == [k |-> "none", n |-> 0, r |-> ""]

Instr(id, opcode, op1, op2, dest, addr) ==
  [id |-> id, opcode |-> opcode, operand1 |-> op1, operand2 |-> op2,
   destination |-> dest, address |-> addr]

\* typeof operand === 'number'
IsNumber(op) == op.k = "num"
\* typeof operand === 'string'
IsString(op) == op.k = "reg"
\* JavaScript truthiness of an operand (0, "" and undefined are falsy)
OperandTruthy(op) ==
  \/ op.k = "num" /\ op.n # 0
  \/ op.k = "reg" /\ op.r # ""

OperationOpcode(operation) ==
  CASE operation = "+" -> "ADD"
    [] operation = "-" -> "SUB"
    [] operation = "*" -> "MUL"
    [] operation = "/" -> "DIV"

generateCalculatorInstructions(operand1, operand2, operation) ==
  << Instr("load1", "LOAD", Lit(operand1), NoOperand, "R1", NoAddress),
     Instr("load2", "LOAD", Lit(operand2), NoOperand, "R2", NoAddress),
     Instr("compute", OperationOpcode(operation), Ref("R1"), Ref("R2"), "R3", NoAddress),
     Instr("store", "STORE", NoOperand, NoOperand, "R3", CalcStoreAddress) >>

StateValue(currentState) ==
  IF currentState = "RED" THEN 0 ELSE IF currentState = "YELLOW" THEN 1 ELSE 2

generateTrafficLightInstructions(currentState, sensorInput) ==
  << Instr("load_sensor", "LOAD", Lit(IF sensorInput THEN 1 ELSE 0), NoOperand, "R1", NoAddress),
     Instr("load_state", "LOAD", Lit(StateValue(currentState)), NoOperand, "R2", NoAddress) >>
  \o (IF currentState = "RED" /\ sensorInput
        THEN << Instr("set_green", "MOV", Lit(2), NoOperand, "R3", NoAddress) >>
      ELSE IF currentState = "GREEN"
        THEN << Instr("set_yellow", "MOV", Lit(1), NoOperand, "R3", NoAddress) >>
      ELSE IF currentState = "YELLOW"
        THEN << Instr("set_red", "MOV", Lit(0), NoOperand, "R3", NoAddress) >>
      ELSE << >>)
  \o << Instr("store_output", "STORE", NoOperand, NoOperand, "R3", TrafficStoreAddress) >>

(***************************************************************************)
(* SimulationEngine: construction.                                         *)
(***************************************************************************)
RegisterNames == {"R1", "R2", "R3", "PC", "IR"}
Addresses == 0..(MemSize - 1)
phases == << "FETCH", "DECODE", "EXECUTE", "STORE" >>
NoActiveAddress == -1

(***************************************************************************)
(* The memory array has one cell per address of Addresses.  It is kept as  *)
(* a function on the addresses whose cell differs from the cell the        *)
(* constructor creates; every other address holds InitialCell.             *)
(***************************************************************************)
InitialCell == [value |-> Zero, active |-> FALSE, used |-> FALSE]

\* memory[address], for an address of Addresses
Cell(memory, address) ==
  IF address \in DOMAIN memory THEN memory[address] ELSE InitialCell

\* memory with memory[address] replaced by cell
PutCell(memory, address, cell) ==
  LET keep == IF cell = InitialCell THEN DOMAIN memory \ {address}
                                    ELSE DOMAIN memory \cup {address}
  IN  [a \in keep |-> IF a = address THEN cell ELSE memory[a]]

\* memory.forEach((mem) => { mem.active = false })
DeactivateMemory(memory) ==
  LET keep == {a \in DOMAIN memory :
                 [memory[a] EXCEPT !.active = FALSE] # InitialCell}
  IN  [a \in keep |-> [memory[a] EXCEPT !.active = FALSE]]

\* memory.forEach((mem) => { mem.used = false; mem.active = false })
ClearMemoryFlags(memory) ==
  LET keep == {a \in DOMAIN memory : Truthy(memory[a].value)}
  IN  [a \in keep |-> [memory[a] EXCEPT !.used = FALSE, !.active = FALSE]]

EmptyLine == [address |-> 0, value |-> Zero, valid |-> FALSE, dirty |-> FALSE,
              lastAccessed |-> 0]

EmptyCache(level, size) ==
  [level |-> level, lines |-> [i \in 1..size |-> EmptyLine], hits |-> 0,
   misses |-> 0, size |-> size, activeAddress |-> NoActiveAddress,
   isHit |-> "undefined"]

\* the speed a newly created state starts with, in milliseconds
InitialSpeed == 1000

createInitialState ==
  [cpu |-> [registers |-> [r \in RegisterNames |-> [value |-> Zero, active |-> FALSE]],
            memory |-> [a \in {} |-> InitialCell],
            cache |-> << EmptyCache("L1", L1Size), EmptyCache("L2", L2Size),
                         EmptyCache("L3", L3Size) >>,
            programCounter |-> 0,
            instructionRegister |-> << >>,
            currentPhase |-> "IDLE",
            clockCycle |-> 0],
   currentExample |-> "CALCULATOR",
   speed |-> InitialSpeed,
   busTransfers |-> << >>,
   history |-> << >>]

(***************************************************************************)
(* The engine's operations are written over a record e that carries        *)
(*   state      this.state                                                 *)
(*   step       the SimulationStep record under construction               *)
(*   busTimers  the pending addBusTransfer clean-up callbacks in the order *)
(*              they were scheduled, each with the id of its transfer and  *)
(*              the delay it was given                                     *)
(*   cacheTimers  the pending executeStore callbacks in the order they     *)
(*              were scheduled, each with the delay it was given and the   *)
(*              number of bus callbacks scheduled before it                *)
(*   entropy    the number of (Date.now(), Math.random()) readings taken   *)
(*              so far; the n-th reading is the token n, so that ids are   *)
(*              unique and never repeat, also across reset()               *)
(***************************************************************************)
SetRegister(e, name, reg) ==
  [e EXCEPT !.state.cpu.registers[name] = reg]

PushRegisterChange(e, name, oldValue, newValue) ==
  [e EXCEPT !.step.registerChanges =
     Append(@, [name |-> name, oldValue |-> oldValue, newValue |-> newValue])]

PushMemoryChange(e, address, oldValue, newValue) ==
  [e EXCEPT !.step.memoryChanges =
     Append(@, [address |-> address, oldValue |-> oldValue, newValue |-> newValue])]

\* Math.max(500, speed + 500)
cleanupDelay(speed) == IF speed + 500 > 500 THEN speed + 500 ELSE 500

addBusTransfer(e, type, from, to, value) ==
  LET token == e.entropy + 1
      transfer == [id |-> token, type |-> type, from |-> from, to |-> to,
                   value |-> value, active |-> TRUE, timestamp |-> token]
  IN  [e EXCEPT !.state.busTransfers = Append(@, transfer),
                !.busTimers = Append(@, [id |-> token,
                                         delay |-> cleanupDelay(e.state.speed)]),
                !.entropy = token]

\* cache.forEach: clear activeAddress and isHit of every level
ClearCacheActive(cache) ==
  [c \in DOMAIN cache |->
     [cache[c] EXCEPT !.activeAddress = NoActiveAddress, !.isHit = "undefined"]]

\* lines.find((l) => l.valid && l.address === address): index of the first
\* such line, 0 when there is none
FindLine(lines, address) ==
  LET hits == {i \in DOMAIN lines : lines[i].valid /\ lines[i].address = address}
  IN  IF hits = {} THEN 0 ELSE CHOOSE i \in hits : \A j \in hits : i <= j

\* a cache access that never looks for an existing line
FindLevelNoLookup(cache, address) == 0

\* index of the first cache level (array order) holding a valid line for
\* the address, 0 when no level does
FindLevel(cache, address) ==
  LET found == {c \in DOMAIN cache : FindLine(cache[c].lines, address) # 0}
  IN  IF found = {} THEN 0 ELSE CHOOSE c \in found : \A d \in found : c <= d

\* candidates.reduce((oldest, current) =>
\*   current.lastAccessed < oldest.lastAccessed ? current : oldest)
\* over the lines with index in candidates, in array order: the first line
\* with the smallest lastAccessed
ReduceOldest(lines, candidates) ==
  CHOOSE i \in candidates :
    \A j \in candidates :
      \/ lines[i].lastAccessed < lines[j].lastAccessed
      \/ lines[i].lastAccessed = lines[j].lastAccessed /\ i <= j

\* a lookup that never consults the memory cell
MemoryValueIgnored(memory, address, fallback) == fallback

\* memory.find((m) => m.address === address)?.value || fallback
MemoryValueOr(memory, address, fallback) ==
  IF address \in Addresses /\ Truthy(Cell(memory, address).value)
    THEN Cell(memory, address).value
    ELSE fallback

\* a reduce that takes the current line on <= : of the valid lines with the
\* smallest lastAccessed the last one in array order
ReadVictimLastOnTie(lines) ==
  LET validLines == {i \in DOMAIN lines : lines[i].valid}
  IN  IF validLines # {}
        THEN CHOOSE i \in validLines :
               \A j \in validLines :
                 \/ lines[i].lastAccessed < lines[j].lastAccessed
                 \/ lines[i].lastAccessed = lines[j].lastAccessed /\ i >= j
        ELSE 1

\* the L1 line checkCache overwrites on a miss
ReadVictim(lines) ==
  LET validLines == {i \in DOMAIN lines : lines[i].valid}
  IN  IF validLines # {} THEN ReduceOldest(lines, validLines) ELSE 1

\* the L1 line updateCache overwrites on a miss
WriteVictim(lines) == ReduceOldest(lines, DOMAIN lines)

\* a lookup that counts a miss in every level it searched
checkCacheCountingLevels(e, address) ==
  LET cpu == e.state.cpu
      cleared == ClearCacheActive(cpu.cache)
      c == FindLevel(cleared, address)
  IN  IF c # 0
        THEN LET l == FindLine(cleared[c].lines, address)
                 hit == [cleared EXCEPT ![c].hits = @ + 1,
                                        ![c].activeAddress = address,
                                        ![c].isHit = "true",
                                        ![c].lines[l].lastAccessed = cpu.clockCycle]
             IN  [e |-> [e EXCEPT !.state.cpu.cache = hit],
                  level |-> cleared[c].level, isHit |-> TRUE]
        ELSE LET v == ReadVictim(cleared[1].lines)
                 line == [address |-> address,
                          value |-> MemoryValueOr(cpu.memory, address, Zero),
                          valid |-> TRUE, dirty |-> FALSE,
                          lastAccessed |-> cpu.clockCycle]
                 miss == [cleared EXCEPT ![1].misses = @ + 1,
                                         ![2].misses = @ + 1,
                                         ![3].misses = @ + 1,
                                         ![1].activeAddress = address,
                                         ![1].isHit = "false",
                                         ![1].lines[v] = line]
             IN  [e |-> [e EXCEPT !.state.cpu.cache = miss],
                  level |-> "L1", isHit |-> FALSE]

\* returns [e, level, isHit]
checkCache(e, address) ==
  LET cpu == e.state.cpu
      cleared == ClearCacheActive(cpu.cache)
      c == FindLevel(cleared, address)
  IN  IF c # 0
        THEN LET l == FindLine(cleared[c].lines, address)
                 hit == [cleared EXCEPT ![c].hits = @ + 1,
                                        ![c].activeAddress = address,
                                        ![c].isHit = "true",
                                        ![c].lines[l].lastAccessed = cpu.clockCycle]
             IN  [e |-> [e EXCEPT !.state.cpu.cache = hit],
                  level |-> cleared[c].level, isHit |-> TRUE]
        ELSE LET v == ReadVictim(cleared[1].lines)
                 line == [address |-> address,
                          value |-> MemoryValueOr(cpu.memory, address, Zero),
                          valid |-> TRUE, dirty |-> FALSE,
                          lastAccessed |-> cpu.clockCycle]
                 miss == [cleared EXCEPT ![1].misses = @ + 1,
                                         ![1].activeAddress = address,
                                         ![1].isHit = "false",
                                         ![1].lines[v] = line]
             IN  [e |-> [e EXCEPT !.state.cpu.cache = miss],
                  level |-> "L1", isHit |-> FALSE]

\* returns [e, level, isHit]
updateCache(e, address, value) ==
  LET cpu == e.state.cpu
      cleared == ClearCacheActive(cpu.cache)
      c == FindLevel(cleared, address)
  IN  IF c # 0
        THEN LET l == FindLine(cleared[c].lines, address)
                 hit == [cleared EXCEPT ![c].hits = @ + 1,
                                        ![c].activeAddress = address,
                                        ![c].isHit = "true",
                                        ![c].lines[l].value = value,
                                        ![c].lines[l].dirty = TRUE,
                                        ![c].lines[l].lastAccessed = cpu.clockCycle]
             IN  [e |-> [e EXCEPT !.state.cpu.cache = hit],
                  level |-> cleared[c].level, isHit |-> TRUE]
        ELSE LET v == WriteVictim(cleared[1].lines)
                 line == [address |-> address, value |-> value,
                          valid |-> TRUE, dirty |-> TRUE,
                          lastAccessed |-> cpu.clockCycle]
                 miss == [cleared EXCEPT ![1].misses = @ + 1,
                                         ![1].activeAddress = address,
                                         ![1].isHit = "false",
                                         ![1].lines[v] = line]
             IN  [e |-> [e EXCEPT !.state.cpu.cache = miss],
                  level |-> "L1", isHit |-> FALSE]

(***************************************************************************)
(* The four phases.                                                        *)
(***************************************************************************)
\* a FETCH that logs the data transfer before the address transfer
executeFetchDataFirst(e, instruction) ==
  LET pc == e.state.cpu.programCounter + 1
      e1 == [e EXCEPT !.state.cpu.instructionRegister = << instruction >>,
                      !.state.cpu.programCounter = pc]
      pcReg == e1.state.cpu.registers["PC"]
      e2 == IF "PC" \in DOMAIN e1.state.cpu.registers
              THEN SetRegister(PushRegisterChange(e1, "PC", pcReg.value, Num(pc)),
                               "PC", [value |-> Num(pc), active |-> TRUE])
              ELSE e1
      e3 == addBusTransfer(e2, "DATA", "Memory", "IR", Zero)
  IN  addBusTransfer(e3, "ADDRESS", "PC", "Memory", Num(pc))

executeFetch(e, instruction) ==
  LET pc == e.state.cpu.programCounter + 1
      e1 == [e EXCEPT !.state.cpu.instructionRegister = << instruction >>,
                      !.state.cpu.programCounter = pc]
      pcReg == e1.state.cpu.registers["PC"]
      e2 == IF "PC" \in DOMAIN e1.state.cpu.registers
              THEN SetRegister(PushRegisterChange(e1, "PC", pcReg.value, Num(pc)),
                               "PC", [value |-> Num(pc), active |-> TRUE])
              ELSE e1
      e3 == addBusTransfer(e2, "ADDRESS", "PC", "Memory", Num(pc))
  IN  addBusTransfer(e3, "DATA", "Memory", "IR", Zero)

\* a DECODE that logs the instruction register as a register change
executeDecodeLoggingIR(e, instruction) ==
  IF "IR" \in DOMAIN e.state.cpu.registers
    THEN PushRegisterChange([e EXCEPT !.state.cpu.registers["IR"].active = TRUE],
                            "IR", e.state.cpu.registers["IR"].value,
                            e.state.cpu.registers["IR"].value)
    ELSE e

executeDecode(e, instruction) ==
  IF "IR" \in DOMAIN e.state.cpu.registers
    THEN [e EXCEPT !.state.cpu.registers["IR"].active = TRUE]
    ELSE e

\* case 'LOAD'
ExecuteLoad(e, instruction) ==
  LET operand1 == instruction.operand1
      destination == instruction.destination
      registers == e.state.cpu.registers
  IN  IF IsNumber(operand1) /\ destination # "" /\ destination \in DOMAIN registers
        THEN IF instruction.address # NoAddress
               THEN LET address == instruction.address
                        cacheResult == checkCache(e, address)
                        e1 == cacheResult.e
                        memValue == MemoryValueOr(e1.state.cpu.memory, address,
                                                  Num(operand1.n))
                        e2 == IF address \in Addresses
                                THEN [e1 EXCEPT !.state.cpu.memory =
                                        PutCell(@, address,
                                                [Cell(@, address) EXCEPT !.used = TRUE])]
                                ELSE e1
                        e3 == SetRegister(
                                PushRegisterChange(e2, destination,
                                                   registers[destination].value, memValue),
                                destination, [value |-> memValue, active |-> TRUE])
                    IN  IF cacheResult.isHit
                          THEN addBusTransfer(e3, "DATA", cacheResult.level,
                                              destination, memValue)
                          ELSE addBusTransfer(
                                 addBusTransfer(e3, "DATA", "Memory",
                                                cacheResult.level, memValue),
                                 "DATA", cacheResult.level, destination, memValue)
               ELSE LET e1 == SetRegister(
                                PushRegisterChange(e, destination,
                                                   registers[destination].value,
                                                   Num(operand1.n)),
                                destination, [value |-> Num(operand1.n), active |-> TRUE])
                    IN  addBusTransfer(e1, "DATA", "CPU", destination, Num(operand1.n))
        ELSE e

\* case 'STORE'
ExecuteStoreOpcode(e, instruction) ==
  LET destination == instruction.destination
      address == instruction.address
      registers == e.state.cpu.registers
      memory == e.state.cpu.memory
  IN  IF /\ destination # ""
         /\ destination \in DOMAIN registers
         /\ address # NoAddress
         /\ address \in Addresses
        THEN LET value == registers[destination].value
                 e1 == PushMemoryChange(e, address, Cell(memory, address).value, value)
                 e2 == [e1 EXCEPT !.state.cpu.memory =
                          PutCell(@, address,
                                  [value |-> value, active |-> TRUE, used |-> TRUE])]
                 cacheResult == updateCache(e2, address, value)
                 e3 == addBusTransfer(cacheResult.e, "ADDRESS", "CPU", "Memory",
                                      Num(address))
                 e4 == addBusTransfer(e3, "DATA", destination, cacheResult.level, value)
             IN  IF cacheResult.isHit
                   THEN e4
                   ELSE addBusTransfer(e4, "DATA", cacheResult.level, "Memory", value)
        ELSE e

\* the inner switch of ADD/SUB/MUL/DIV
AluResult(opcode, val1, val2) ==
  CASE opcode = "ADD" -> NumAdd(val1, val2)
    [] opcode = "SUB" -> NumSub(val1, val2)
    [] opcode = "MUL" -> NumMul(val1, val2)
    [] opcode = "DIV" -> IF val2 # Zero THEN NumDiv(val1, val2) ELSE Zero
    [] OTHER -> Zero

\* the guard of the ADD/SUB/MUL/DIV case: operand1 && operand2 && destination
AluOperandsPresent(instruction) ==
  /\ OperandTruthy(instruction.operand1)
  /\ OperandTruthy(instruction.operand2)
  /\ instruction.destination # ""

\* case 'ADD' | 'SUB' | 'MUL' | 'DIV'
ExecuteAlu(e, instruction) ==
  LET operand1 == instruction.operand1
      operand2 == instruction.operand2
      destination == instruction.destination
      registers == e.state.cpu.registers
      reg1Name == IF IsString(operand1) THEN operand1.r ELSE "R1"
      reg2Name == IF IsString(operand2) THEN operand2.r ELSE "R2"
  IN  IF /\ AluOperandsPresent(instruction)
         /\ reg1Name \in DOMAIN registers
         /\ reg2Name \in DOMAIN registers
         /\ destination \in DOMAIN registers
        THEN LET val1 == IF IsNumber(operand1) THEN Num(operand1.n)
                                               ELSE registers[reg1Name].value
                 val2 == IF IsNumber(operand2) THEN Num(operand2.n)
                                               ELSE registers[reg2Name].value
                 result == AluResult(instruction.opcode, val1, val2)
                 e1 == PushRegisterChange(e, destination,
                                          registers[destination].value, result)
                 e2 == [e1 EXCEPT !.state.cpu.registers[destination] =
                                     [value |-> result, active |-> TRUE]]
                 e3 == [e2 EXCEPT !.state.cpu.registers[reg1Name].active = TRUE,
                                  !.state.cpu.registers[reg2Name].active = TRUE]
                 e4 == addBusTransfer(e3, "DATA", reg1Name, "ALU", val1)
                 e5 == addBusTransfer(e4, "DATA", reg2Name, "ALU", val2)
                 e6 == addBusTransfer(e5, "CONTROL", "ControlUnit", "ALU", Zero)
             IN  addBusTransfer(e6, "DATA", "ALU", destination, result)
        ELSE e

\* a MOV that copies a register when operand1 names one
ExecuteMovRegisterOperand(e, instruction) ==
  LET operand1 == instruction.operand1
      destination == instruction.destination
      registers == e.state.cpu.registers
      value == IF IsNumber(operand1) THEN Num(operand1.n)
               ELSE IF operand1.r \in DOMAIN registers THEN registers[operand1.r].value
               ELSE Zero
  IN  IF operand1 # NoOperand /\ destination # "" /\ destination \in DOMAIN registers
        THEN SetRegister(
               PushRegisterChange(e, destination, registers[destination].value, value),
               destination, [value |-> value, active |-> TRUE])
        ELSE e

\* case 'MOV'
ExecuteMov(e, instruction) ==
  LET operand1 == instruction.operand1
      destination == instruction.destination
      registers == e.state.cpu.registers
  IN  IF IsNumber(operand1) /\ destination # "" /\ destination \in DOMAIN registers
        THEN SetRegister(
               PushRegisterChange(e, destination, registers[destination].value,
                                  Num(operand1.n)),
               destination, [value |-> Num(operand1.n), active |-> TRUE])
        ELSE e

executeExecute(e, instruction) ==
  CASE instruction.opcode = "LOAD" -> ExecuteLoad(e, instruction)
    [] instruction.opcode = "STORE" -> ExecuteStoreOpcode(e, instruction)
    [] instruction.opcode \in {"ADD", "SUB", "MUL", "DIV"} -> ExecuteAlu(e, instruction)
    [] instruction.opcode = "MOV" -> ExecuteMov(e, instruction)
    [] OTHER -> e

executeStore(e, instruction) ==
  [e EXCEPT !.state.cpu.registers =
              [r \in DOMAIN @ |->
                 IF r # "PC" /\ r # "IR" THEN [@[r] EXCEPT !.active = FALSE] ELSE @[r]],
            !.state.cpu.memory = DeactivateMemory(@),
            !.cacheTimers = Append(@, [delay |-> e.state.speed,
                                       after |-> e.entropy])]

(***************************************************************************)
(* GameEngine and the rules it calls (cpuRules, calculatorMode,            *)
(* trafficLightMode): the pure part.                                       *)
(***************************************************************************)
NumLess(x, y) == x.num * y.den < y.num * x.den
NumLeq(x, y) == x.num * y.den <= y.num * x.den
NumMax(x, y) == IF NumLess(x, y) THEN y ELSE x
NumMin(x, y) == IF NumLess(y, x) THEN y ELSE x
NumAbs(x) == [num |-> Abs(x.num), den |-> x.den]
\* Math.floor
NumFloor(x) == Num(x.num \div x.den)

GameRegisterNames == {"R1", "R2", "R3"}

gameCreateInitialState ==
  [mode |-> "CALCULATOR", level |-> 1, score |-> 0, energy |-> Num(100),
   maxEnergy |-> Num(100), clockCycle |-> 0, taskQueue |-> << >>,
   registers |-> [r \in GameRegisterNames |-> [value |-> Zero, active |-> FALSE]],
   isPlaying |-> FALSE, accuracy |-> 100, efficiency |-> Num(100),
   speedBonus |-> 0]

getInstructionCycles(opcode) ==
  CASE opcode \in {"LOAD", "STORE"} -> 3
    [] opcode \in {"ADD", "SUB"} -> 1
    [] opcode \in {"MUL", "DIV"} -> 3
    [] opcode = "MOV" -> 1
    [] opcode \in {"JMP", "JZ", "JNZ"} -> 2
    [] opcode = "HALT" -> 1
    [] OTHER -> 1

\* an energy cost that charges a whole unit for each occupied register
getEnergyCostWholePenalty(opcode, registerCount) ==
  NumAdd(Num(getInstructionCycles(opcode)), Num(registerCount))

getEnergyCost(opcode, registerCount) ==
  NumAdd(Num(getInstructionCycles(opcode)), Frac(registerCount, 2))

\* an availability check that also counts a register holding a value as
\* missing
checkRegisterAvailabilityByOccupancy(registers, requiredRegisters) ==
  LET missing == SelectSeq(requiredRegisters,
                           LAMBDA req : \/ req \notin DOMAIN registers
                                        \/ registers[req].value # Zero)
  IN  [available |-> Len(missing) = 0, missing |-> missing]

\* requiredRegisters.filter((req) => !registers.some((r) => r.name === req))
checkRegisterAvailability(registers, requiredRegisters) ==
  LET missing == SelectSeq(requiredRegisters, LAMBDA req : req \notin DOMAIN registers)
  IN  [available |-> Len(missing) = 0, missing |-> missing]

\* the registers an ADD/SUB/MUL/DIV instruction names, in the order pushed
RequiredRegs(instruction) ==
  (IF IsString(instruction.operand1) THEN << instruction.operand1.r >> ELSE << >>)
  \o (IF IsString(instruction.operand2) THEN << instruction.operand2.r >> ELSE << >>)
  \o (IF instruction.destination # "" THEN << instruction.destination >> ELSE << >>)

\* executeInstruction(instruction, registers, level); cacheMiss is the
\* outcome of Math.random() > 0.7, consulted only above level 2
executeInstruction(instruction, registers, level, cacheMiss) ==
  LET cycles == getInstructionCycles(instruction.opcode)
      registerCount == Cardinality({r \in DOMAIN registers : registers[r].value # Zero})
      energyCost == getEnergyCost(instruction.opcode, registerCount)
      gated == /\ instruction.opcode \in {"ADD", "SUB", "MUL", "DIV"}
               /\ ~checkRegisterAvailability(registers, RequiredRegs(instruction)).available
               /\ level > 1
      cacheMissPenalty == IF level > 2 THEN cacheMiss ELSE FALSE
  IN  IF gated
        THEN [success |-> FALSE, cyclesUsed |-> cycles,
              energyCost |-> NumMul(energyCost, Frac(1, 2))]
        ELSE [success |-> TRUE,
              cyclesUsed |-> IF cacheMissPenalty THEN cycles + 2 ELSE cycles,
              energyCost |-> IF cacheMissPenalty THEN NumAdd(energyCost, Num(1))
                                                 ELSE energyCost]

\* the inner switch of GameEngine.executeInstructionOnRegisters
GameAluResult(opcode, val1, val2) ==
  CASE opcode = "ADD" -> NumAdd(val1, val2)
    [] opcode = "SUB" -> NumSub(val1, val2)
    [] opcode = "MUL" -> NumMul(val1, val2)
    [] opcode = "DIV" -> IF val2 # Zero THEN NumFloor(NumDiv(val1, val2)) ELSE Zero

\* GameEngine.executeInstructionOnRegisters: the register bank it leaves
executeInstructionOnRegisters(registers, instruction) ==
  LET operand1 == instruction.operand1
      operand2 == instruction.operand2
      destination == instruction.destination
      reg1Name == IF IsString(operand1) THEN operand1.r ELSE "R1"
      reg2Name == IF IsString(operand2) THEN operand2.r ELSE "R2"
  IN  CASE instruction.opcode \in {"LOAD", "MOV"} ->
             IF IsNumber(operand1) /\ destination # "" /\ destination \in DOMAIN registers
               THEN [registers EXCEPT ![destination] =
                       [value |-> Num(operand1.n), active |-> TRUE]]
               ELSE registers
        [] instruction.opcode \in {"ADD", "SUB", "MUL", "DIV"} ->
             IF /\ destination # ""
                /\ reg1Name \in DOMAIN registers
                /\ reg2Name \in DOMAIN registers
                /\ destination \in DOMAIN registers
               THEN LET val1 == IF IsNumber(operand1) THEN Num(operand1.n)
                                                      ELSE registers[reg1Name].value
                        val2 == IF IsNumber(operand2) THEN Num(operand2.n)
                                                      ELSE registers[reg2Name].value
                    IN  [registers EXCEPT ![destination] =
                           [value |-> GameAluResult(instruction.opcode, val1, val2),
                            active |-> TRUE]]
               ELSE registers
        [] OTHER -> registers

\* calculateRatio inside calculateEfficiency
calculateRatio(optimal, actual) ==
  IF NumLeq(optimal, Zero) \/ NumLeq(actual, Zero)
    THEN Zero
    ELSE NumMul(NumDiv(optimal, actual), Num(100))

calculateEfficiency(cyclesUsed, energyUsed, optimalCycles, optimalEnergy) ==
  LET cycleEfficiency ==
        NumMin(Num(100), NumMax(Zero, calculateRatio(optimalCycles, cyclesUsed)))
      energyEfficiency ==
        NumMin(Num(100), NumMax(Zero, calculateRatio(optimalEnergy, energyUsed)))
  IN  NumDiv(NumAdd(cycleEfficiency, energyEfficiency), Num(2))

calculateScore(success, cyclesUsed, timeLimit, basePoints, efficiency) ==
  IF ~success
    THEN 0
    ELSE LET timeBonus == (IF timeLimit - cyclesUsed > 0 THEN timeLimit - cyclesUsed ELSE 0) * 10
             efficiencyBonus == NumMul(efficiency, Frac(1, 2))
             speedBonus == IF 2 * cyclesUsed <= timeLimit THEN Frac(basePoints, 2) ELSE Zero
         IN  NumFloor(NumAdd(NumAdd(Num(basePoints + timeBonus), efficiencyBonus),
                             speedBonus)).num

\* the switch of generateCalculatorTask
CalculatorExpectedResult(operand1, operand2, operator) ==
  CASE operator = "+" -> operand1 + operand2
    [] operator = "-" -> operand1 - operand2
    [] operator = "*" -> operand1 * operand2
    [] operator = "/" -> operand1 \div operand2

\* generateCalculatorTask(level) with the values drawn from Math.random()
\* and the id built from Date.now() and Math.random()
generateCalculatorTask(level, operand1, operand2, operator, id) ==
  [id |-> id, type |-> "calculation",
   operation |-> [operand1 |-> operand1, operand2 |-> operand2,
                  operator |-> operator,
                  expectedResult |-> CalculatorExpectedResult(operand1, operand2, operator)],
   priority |-> 1, timeLimit |-> 10 + level * 2, points |-> 100 + level * 50]

(***************************************************************************)
(* Math.abs(playerResult - expectedResult) < 0.01 is computed in doubles.  *)
(* playerResult stands for the double nearest to the fraction.  When the   *)
(* fraction is not exactly 0.01 away from expectedResult, the rounding of  *)
(* playerResult, of the difference and of 0.01 is too small to change the  *)
(* comparison.  When it is (playerResult = m/100 in lowest terms), the     *)
(* difference is exact and the double 0.01 exceeds 1/100 by less than any  *)
(* rounding of m/100, so the test is true exactly when the double nearest  *)
(* to m/100 lies on the side of expectedResult; for expectedResult = 0     *)
(* both sides are the double 0.01 and the test is false.  The double       *)
(* nearest to the magnitude m/100, which has 53 significant bits, is below *)
(* it when the remainder of m * 2^k by 100 is below 50, with               *)
(* k = 52 - floor(log2(m/100)); no tie arises for an odd m.                *)
(***************************************************************************)
validateCalculatorTask(task, playerResult) ==
  IF task.type # "calculation" \/ "operation" \notin DOMAIN task
    THEN FALSE
    ELSE LET RECURSIVE Pow2Mod100(_)
             Pow2Mod100(k) == IF k = 0 THEN 1 ELSE (2 * Pow2Mod100(k - 1)) % 100
             RECURSIVE FloorLog2(_)
             FloorLog2(q) == IF q < 2 THEN 0 ELSE 1 + FloorLog2(q \div 2)
             expected == task.operation.expectedResult
             difference == NumAbs(NumSub(playerResult, Num(expected)))
             m == Abs(playerResult.num \div (playerResult.den \div 100))
             exponent == IF m < 100 THEN -1 ELSE FloorLog2(m \div 100)
             roundsDown == ((m % 100) * Pow2Mod100(52 - exponent)) % 100 < 50
         IN  IF difference # Frac(1, 100)
               THEN NumLess(difference, Frac(1, 100))
             ELSE IF expected = 0
               THEN FALSE
             ELSE (m > 100 * Abs(expected)) = roundsDown

getOptimalCalculatorCycles(task) ==
  IF task.type # "calculation" \/ "operation" \notin DOMAIN task
    THEN 5
    ELSE 3 + 3 + (IF task.operation.operator \in {"*", "/"} THEN 3 ELSE 1) + 3

\* the state machine of generateTrafficLightTask
TrafficExpectedAction(currentState, sensorInput) ==
  IF currentState = "RED" /\ sensorInput THEN "GREEN"
  ELSE IF currentState = "GREEN" THEN "YELLOW"
  ELSE IF currentState = "YELLOW" THEN "RED"
  ELSE currentState

generateTrafficLightTask(level, currentState, sensorInput, id) ==
  [id |-> id, type |-> "traffic_control",
   trafficScenario |-> [currentState |-> currentState, sensorInput |-> sensorInput,
                        expectedAction |-> TrafficExpectedAction(currentState, sensorInput)],
   priority |-> 1, timeLimit |-> 8 + level * 2, points |-> 120 + level * 60]

validateTrafficLightTask(task, playerAction) ==
  IF task.type # "traffic_control" \/ "trafficScenario" \notin DOMAIN task
    THEN FALSE
    ELSE playerAction = task.trafficScenario.expectedAction

getOptimalTrafficLightCycles(task) ==
  IF task.type # "traffic_control" THEN 5 ELSE 10

(***************************************************************************)
(* State.                                                                  *)
(*   state, instructionIndex, currentInstructions, phaseIndex: the fields  *)
(*     of SimulationEngine (instructionIndex and phaseIndex count from 0)  *)
(*   busTimers, cacheTimers, entropy: the environment (see above)          *)
(*   ret: the value returned by the last step() call since the program     *)
(*     was loaded ("none" before the first call)                           *)
(*   stepCalls: the number of step() calls since the program was loaded    *)
(*   loads, resets: the number of setExample() and of reset() calls made   *)
(*   timerFires: the number of setTimeout callbacks that have fired        *)
(*   speedChanges: the number of setSpeed() calls made                     *)
(*   snapshot: what the caller of getState() and getCurrentInstructions()  *)
(*     holds (empty before the call)                                       *)
(***************************************************************************)
VARIABLES state, instructionIndex, currentInstructions, phaseIndex,
          busTimers, cacheTimers, entropy, ret, stepCalls, loads, resets, timerFires,
          speedChanges, snapshot, game, gameCall, taskSeq, gameStarts, pauses

engineVars == << state, instructionIndex, currentInstructions, phaseIndex >>
envVars == << busTimers, cacheTimers, entropy >>
vars == << state, instructionIndex, currentInstructions, phaseIndex,
           busTimers, cacheTimers, entropy, ret, stepCalls, loads, resets, timerFires,
           speedChanges, snapshot, game, gameCall, taskSeq, gameStarts, pauses >>
\* the GameEngine, the last call made on it with its argument and return
\* value, the number of task ids drawn and the numbers of startGame() or
\* reset() calls and of togglePause() calls made on it
gameVars == << game, gameCall, taskSeq, gameStarts, pauses >>
\* the SimulationEngine, its environment and the calls made on it
simVars == << state, instructionIndex, currentInstructions, phaseIndex,
              busTimers, cacheTimers, entropy, ret, stepCalls, loads, resets, timerFires,
              speedChanges, snapshot >>

Init ==
  /\ state = createInitialState
  /\ instructionIndex = 0
  /\ currentInstructions = << >>
  /\ phaseIndex = 0
  /\ busTimers = << >>
  /\ cacheTimers = << >>
  /\ entropy = 0
  /\ ret = "none"
  /\ stepCalls = 0
  /\ loads = 0
  /\ resets = 0
  /\ timerFires = 0
  /\ speedChanges = 0
  /\ snapshot = << >>
  /\ game = gameCreateInitialState
  /\ gameCall = [op |-> "none", arg |-> << >>, ret |-> << >>]
  /\ taskSeq = 0
  /\ gameStarts = 0
  /\ pauses = 0

(***************************************************************************)
(* getState() returns { ...this.state }: a new object whose cpu,           *)
(* busTransfers and history are the engine's own objects, so its caller    *)
(* sees every later change the engine makes to them, until the engine      *)
(* puts new objects in their place: reset() builds a new state,            *)
(* setExample() new busTransfers and history arrays.  The other fields     *)
(* are copied.  A snapshot records the fields that are still the engine's  *)
(* objects in `held`.                                                      *)
(***************************************************************************)
SharedFields == {"cpu", "busTransfers", "history"}

\* what the holders of the snapshots see once the engine's state is s
Seen(snap, s) ==
  [i \in DOMAIN snap |->
     [snap[i] EXCEPT !.state = [f \in DOMAIN @ |->
                                  IF f \in snap[i].held THEN s[f] ELSE @[f]]]]

\* the snapshots once the engine has put new objects in the given fields
Replaced(snap, fields) ==
  [i \in DOMAIN snap |-> [snap[i] EXCEPT !.held = @ \ fields]]

\* the part of setExample() that follows the choice of the instruction list
SetExampleState(exampleType) ==
  [state EXCEPT !.currentExample = exampleType,
                !.cpu.programCounter = 0,
                !.cpu.instructionRegister = << >>,
                !.cpu.currentPhase = "IDLE",
                !.cpu.clockCycle = 0,
                !.busTransfers = << >>,
                !.history = << >>,
                !.cpu.memory = ClearMemoryFlags(@)]

\* setExample(exampleType, exampleData) where instructions is the list the
\* call leaves in currentInstructions
setExample(exampleType, instructions) ==
  /\ loads < MaxLoads
  /\ loads' = loads + 1
  /\ instructionIndex' = 0
  /\ phaseIndex' = 0
  /\ currentInstructions' = instructions
  /\ state' = SetExampleState(exampleType)
  /\ ret' = "none"
  /\ stepCalls' = 0
  /\ snapshot' = Seen(Replaced(snapshot, {"busTransfers", "history"}), state')
  /\ UNCHANGED << envVars, resets, timerFires, speedChanges, gameVars >>

\* the exampleData the calculator example is loaded with
CalculatorExamples ==
  { [input1 |-> 5, input2 |-> 3, operation |-> "+"] }

\* the exampleData the traffic light example is loaded with
TrafficLightExamples ==
  { [currentState |-> "RED", sensorInput |-> TRUE],
    [currentState |-> "RED", sensorInput |-> FALSE] }

SetExampleCalculator ==
  \E calcData \in CalculatorExamples :
    setExample("CALCULATOR",
               generateCalculatorInstructions(calcData.input1, calcData.input2,
                                              calcData.operation))

SetExampleTrafficLight ==
  \E trafficData \in TrafficLightExamples :
    setExample("TRAFFIC_LIGHT",
               generateTrafficLightInstructions(trafficData.currentState,
                                                trafficData.sensorInput))

\* setExample(exampleType) without exampleData: the instruction list is kept
SetExampleNoData ==
  \E exampleType \in {"CALCULATOR", "TRAFFIC_LIGHT"} :
    setExample(exampleType, currentInstructions)

\* a step() that counts the clock cycle before it tests its guards
StepExhaustedCountingCycle ==
  /\ \/ Len(currentInstructions) = 0
     \/ instructionIndex >= Len(currentInstructions)
  /\ stepCalls < 4 * Len(currentInstructions) + MaxExtraCalls
  /\ ret' = "false"
  /\ stepCalls' = stepCalls + 1
  /\ state' = [state EXCEPT !.cpu.clockCycle = @ + 1]
  /\ snapshot' = Seen(snapshot, state')
  /\ UNCHANGED << instructionIndex, currentInstructions, phaseIndex, envVars,
                  loads, resets, timerFires, speedChanges, gameVars >>

\* step() when it returns at one of its two guards
StepExhausted ==
  /\ \/ Len(currentInstructions) = 0
     \/ instructionIndex >= Len(currentInstructions)
  /\ stepCalls < 4 * Len(currentInstructions) + MaxExtraCalls
  /\ ret' = "false"
  /\ stepCalls' = stepCalls + 1
  /\ UNCHANGED << engineVars, envVars, loads, resets, timerFires, speedChanges,
                  snapshot, gameVars >>

\* step() reporting that work remains when the last phase has just run
StepResultOffByOne(nextInstructionIndex, instructions) ==
  nextInstructionIndex <= Len(instructions)

\* the value step() returns after it has run a phase
StepResult(nextInstructionIndex, instructions) ==
  nextInstructionIndex < Len(instructions)

\* a phase dispatch whose FETCH handler counts the clock cycle a second time
RunPhaseCountingFetch(e, phase, instruction) ==
  CASE phase = "FETCH" ->
         [executeFetch(e, instruction) EXCEPT !.state.cpu.clockCycle = @ + 1]
    [] phase = "DECODE" -> executeDecode(e, instruction)
    [] phase = "EXECUTE" -> executeExecute(e, instruction)
    [] phase = "STORE" -> executeStore(e, instruction)

\* the phase dispatch of step()
RunPhase(e, phase, instruction) ==
  CASE phase = "FETCH" -> executeFetch(e, instruction)
    [] phase = "DECODE" -> executeDecode(e, instruction)
    [] phase = "EXECUTE" -> executeExecute(e, instruction)
    [] phase = "STORE" -> executeStore(e, instruction)

\* step() past its guards
StepPhase ==
  /\ Len(currentInstructions) # 0
  /\ instructionIndex < Len(currentInstructions)
  /\ LET instruction == currentInstructions[instructionIndex + 1]
         phase == phases[phaseIndex + 1]
         cycle == state.cpu.clockCycle + 1
         e0 == [state |-> [state EXCEPT !.cpu.currentPhase = phase,
                                        !.cpu.clockCycle = cycle],
                step |-> [cycle |-> cycle, phase |-> phase,
                          instruction |-> instruction,
                          registerChanges |-> << >>, memoryChanges |-> << >>],
                busTimers |-> busTimers, cacheTimers |-> cacheTimers,
                entropy |-> entropy]
         e1 == RunPhase(e0, phase, instruction)
         nextPhase == phaseIndex + 1
         wrap == nextPhase >= Len(phases)
         nextInstruction == IF wrap THEN instructionIndex + 1 ELSE instructionIndex
     IN  /\ state' = [e1.state EXCEPT !.history = Append(@, e1.step)]
         /\ busTimers' = e1.busTimers
         /\ cacheTimers' = e1.cacheTimers
         /\ entropy' = e1.entropy
         /\ phaseIndex' = IF wrap THEN 0 ELSE nextPhase
         /\ instructionIndex' = nextInstruction
         /\ ret' = IF StepResult(nextInstruction, currentInstructions)
                      THEN "true" ELSE "false"
  /\ stepCalls' = stepCalls + 1
  /\ snapshot' = Seen(snapshot, state')
  /\ UNCHANGED << currentInstructions, loads, resets, timerFires, speedChanges,
                  gameVars >>

step == StepExhausted \/ StepPhase

\* reset() that builds a new state but keeps the old cache array
resetKeepingCache ==
  /\ resets < MaxResets
  /\ resets' = resets + 1
  /\ state' = [createInitialState EXCEPT !.cpu.cache = state.cpu.cache]
  /\ instructionIndex' = 0
  /\ phaseIndex' = 0
  /\ currentInstructions' = << >>
  /\ ret' = "none"
  /\ stepCalls' = 0
  /\ snapshot' = Replaced(snapshot, SharedFields)
  /\ UNCHANGED << envVars, loads, timerFires, speedChanges, gameVars >>

reset ==
  /\ resets < MaxResets
  /\ resets' = resets + 1
  /\ state' = createInitialState
  /\ instructionIndex' = 0
  /\ phaseIndex' = 0
  /\ currentInstructions' = << >>
  /\ ret' = "none"
  /\ stepCalls' = 0
  /\ snapshot' = Replaced(snapshot, SharedFields)
  /\ UNCHANGED << envVars, loads, timerFires, speedChanges, gameVars >>

\* the delay setTimeout() runs a callback after: one millisecond when the
\* delay asked for is below 1 or above 2^31 - 1
timeoutDelay(milliseconds) ==
  IF milliseconds < 1 \/ milliseconds > 2147483647 THEN 1 ELSE milliseconds

\* timers without its k-th callback
Without(timers, k) ==
  SubSeq(timers, 1, k - 1) \o SubSeq(timers, k + 1, Len(timers))

(***************************************************************************)
(* The runtime keeps the pending callbacks in one list per delay, each     *)
(* list in the order of the setTimeout() calls, and a callback never fires *)
(* before an earlier one of its list.  Between callbacks of different      *)
(* delays the order depends on the time that passes between the calls on   *)
(* the engine and on how long the thread is busy: when the runtime turns   *)
(* to a list it fires all the callbacks of the list that are due, also     *)
(* ones scheduled after a callback of a shorter delay that is still        *)
(* pending.  The model takes every order that keeps the order of each      *)
(* list: the next callback to fire is the first one of any list.           *)
(***************************************************************************)
\* the k-th pending bus callback can be the next callback to fire
BusTimerDue(k) ==
  LET delay == timeoutDelay(busTimers[k].delay)
  IN  /\ \A i \in 1..(k - 1) : timeoutDelay(busTimers[i].delay) # delay
      /\ \A c \in DOMAIN cacheTimers :
           cacheTimers[c].after < busTimers[k].id
             => timeoutDelay(cacheTimers[c].delay) # delay

\* the k-th pending cache callback can be the next callback to fire
CacheTimerDue(k) ==
  LET delay == timeoutDelay(cacheTimers[k].delay)
  IN  /\ \A c \in 1..(k - 1) : timeoutDelay(cacheTimers[c].delay) # delay
      /\ \A i \in DOMAIN busTimers :
           busTimers[i].id <= cacheTimers[k].after
             => timeoutDelay(busTimers[i].delay) # delay

\* the callback executeStore() scheduled with setTimeout fires
CacheTimerFires ==
  /\ timerFires < MaxTimerFires
  /\ timerFires' = timerFires + 1
  /\ \E k \in DOMAIN cacheTimers :
       /\ CacheTimerDue(k)
       /\ cacheTimers' = Without(cacheTimers, k)
  /\ state' = [state EXCEPT !.cpu.cache = ClearCacheActive(@)]
  /\ snapshot' = Seen(snapshot, state')
  /\ UNCHANGED << instructionIndex, currentInstructions, phaseIndex,
                  busTimers, entropy, ret, stepCalls, loads, resets, speedChanges,
                  gameVars >>

\* busTransfers.findIndex((t) => t.id === id): 0 when there is none
FindTransfer(busTransfers, id) ==
  LET found == {i \in DOMAIN busTransfers : busTransfers[i].id = id}
  IN  IF found = {} THEN 0 ELSE CHOOSE i \in found : \A j \in found : i <= j

\* the callback addBusTransfer() scheduled with setTimeout fires
BusTimerFires ==
  /\ timerFires < MaxTimerFires
  /\ timerFires' = timerFires + 1
  /\ \E k \in DOMAIN busTimers :
       /\ BusTimerDue(k)
       /\ LET index == FindTransfer(state.busTransfers, busTimers[k].id)
          IN  state' = IF index > 0
                         THEN [state EXCEPT !.busTransfers[index].active = FALSE]
                         ELSE state
       /\ busTimers' = Without(busTimers, k)
  /\ snapshot' = Seen(snapshot, state')
  /\ UNCHANGED << instructionIndex, currentInstructions, phaseIndex,
                  cacheTimers, entropy, ret, stepCalls, loads, resets, speedChanges,
                  gameVars >>

\* the speeds setSpeed() is called with, in milliseconds: a faster and a
\* slower one from the range of the speed control
SpeedValues == {100, 5000}

\* setSpeed(milliseconds)
setSpeed(milliseconds) ==
  /\ speedChanges < MaxSpeedChanges
  /\ speedChanges' = speedChanges + 1
  /\ state' = [state EXCEPT !.speed = milliseconds]
  /\ snapshot' = Seen(snapshot, state')
  /\ UNCHANGED << instructionIndex, currentInstructions, phaseIndex, envVars,
                  ret, stepCalls, loads, resets, timerFires, gameVars >>

SetSpeed == \E milliseconds \in SpeedValues : setSpeed(milliseconds)

(***************************************************************************)
(* The two examples, run at the speed the engine is created with, so that  *)
(* all bus callbacks have one delay and all cache callbacks another.       *)
(* NextLru, NextAlu and NextReplay add the calls of setSpeed().            *)
(***************************************************************************)
Next ==
  \/ SetExampleCalculator
  \/ SetExampleTrafficLight
  \/ SetExampleNoData
  \/ StepExhausted
  \/ StepPhase
  \/ reset
  \/ CacheTimerFires
  \/ BusTimerFires

Spec == Init /\ [][Next]_vars

(***************************************************************************)
(* Programs other than the two examples.  setExample() can only install    *)
(* the lists of the two generators; an arbitrary instruction list is       *)
(* installed in currentInstructions of the newly constructed engine, with  *)
(* the cursor and the CPU counters set as setExample() sets them.          *)
(***************************************************************************)
loadProgram(instructions) ==
  /\ loads = 0
  /\ resets = 0
  /\ stepCalls = 0
  /\ currentInstructions = << >>
  /\ instructionIndex' = 0
  /\ phaseIndex' = 0
  /\ currentInstructions' = instructions
  /\ state' = SetExampleState(state.currentExample)
  /\ ret' = "none"
  /\ snapshot' = Seen(Replaced(snapshot, {"busTransfers", "history"}), state')
  /\ UNCHANGED << envVars, stepCalls, loads, resets, timerFires, speedChanges,
                  gameVars >>

\* all instruction lists of 1..n instructions of pool
ProgramsOver(pool, n) ==
  UNION { [1..k -> pool] : k \in 1..n }

(***************************************************************************)
(* Programs of memory instructions: loads with an address into R1 (with   *)
(* operand1 = LoadOperand) and stores of R1.                               *)
(***************************************************************************)
LoadAddresses == {0, 1}
StoreAddresses == {0}
LoadOperand == 5

MemoryInstructions ==
  { Instr("load", "LOAD", Lit(LoadOperand), NoOperand, "R1", a) : a \in LoadAddresses }
  \cup { Instr("store", "STORE", NoOperand, NoOperand, "R1", a) : a \in StoreAddresses }

LoadMemoryProgram ==
  \E instructions \in ProgramsOver(MemoryInstructions, MaxProgLen) :
    loadProgram(instructions)

\* setExample(exampleType) on an engine that holds such a program
RestartProgram ==
  /\ loads < MaxRestarts
  /\ SetExampleNoData

NextCache ==
  \/ LoadMemoryProgram
  \/ RestartProgram
  \/ StepExhausted
  \/ StepPhase
  \/ reset
  \/ CacheTimerFires
  \/ BusTimerFires

SpecCache == Init /\ [][NextCache]_vars

(***************************************************************************)
(* Programs that read distinct addresses one after the other.              *)
(***************************************************************************)
ReadAddresses == {0, 1, 2, 3}

ReadInstruction(a) == Instr("load", "LOAD", Lit(LoadOperand), NoOperand, "R1", a)

ReadPrograms ==
  { [i \in DOMAIN order |-> ReadInstruction(order[i])] :
      order \in { o \in UNION { [1..k -> ReadAddresses] : k \in 3..MaxReads } :
                    \A i, j \in DOMAIN o : o[i] = o[j] => i = j } }

LoadReadProgram ==
  \E instructions \in ReadPrograms : loadProgram(instructions)

NextLru ==
  \/ LoadReadProgram
  \/ StepExhausted
  \/ StepPhase
  \/ reset
  \/ CacheTimerFires
  \/ BusTimerFires
  \/ SetSpeed

SpecLru == Init /\ [][NextLru]_vars

(***************************************************************************)
(* Programs that load two integers into R1 and R2 and run one arithmetic   *)
(* instruction on them, each operand given as the register or as the       *)
(* literal.                                                                *)
(***************************************************************************)
AluValues == {-7, 0, 3, 10}
AluOpcodes == {"ADD", "SUB", "MUL", "DIV"}

AluProgram(a, b, opcode, literal1, literal2) ==
  << Instr("load1", "LOAD", Lit(a), NoOperand, "R1", NoAddress),
     Instr("load2", "LOAD", Lit(b), NoOperand, "R2", NoAddress),
     Instr("compute", opcode,
           IF literal1 THEN Lit(a) ELSE Ref("R1"),
           IF literal2 THEN Lit(b) ELSE Ref("R2"),
           "R3", NoAddress) >>

LoadAluProgram ==
  \E a \in AluValues, b \in AluValues, opcode \in AluOpcodes,
     literal1 \in BOOLEAN, literal2 \in BOOLEAN :
    loadProgram(AluProgram(a, b, opcode, literal1, literal2))

NextAlu ==
  \/ LoadAluProgram
  \/ StepExhausted
  \/ StepPhase
  \/ reset
  \/ CacheTimerFires
  \/ BusTimerFires
  \/ SetSpeed

SpecAlu == Init /\ [][NextAlu]_vars

(***************************************************************************)
(* Two runs of one calculator program on one engine: the state and the     *)
(* instruction list are read with getState() and getCurrentInstructions()  *)
(* when the first run on the newly constructed engine has completed; then  *)
(* reset() and setExample() start the second run.                          *)
(***************************************************************************)
TakeSnapshot ==
  /\ snapshot = << >>
  /\ loads = 1
  /\ resets = 0
  /\ Len(currentInstructions) # 0
  /\ instructionIndex >= Len(currentInstructions)
  /\ snapshot' = << [instructions |-> currentInstructions, state |-> state,
                      held |-> SharedFields] >>
  /\ UNCHANGED << engineVars, envVars, ret, stepCalls, loads, resets, timerFires,
                  speedChanges, gameVars >>

NextReplay ==
  \/ SetExampleCalculator
  \/ StepExhausted
  \/ StepPhase
  \/ reset
  \/ CacheTimerFires
  \/ BusTimerFires
  \/ SetSpeed
  \/ TakeSnapshot

SpecReplay == Init /\ [][NextReplay]_vars

(***************************************************************************)
(* Shorthands for the properties.                                          *)
(***************************************************************************)
cpu == state.cpu
N == Len(currentInstructions)
RegisterValue(name) == state.cpu.registers[name].value

(***************************************************************************)
(* C1  Phase ordering of step().                                           *)
(***************************************************************************)
\* C1 as stated: for a loaded program of N >= 1 instructions, the k-th
\* step() call since the program was loaded returns true exactly when
\* k <= 4N, so that call 4N+1 is the first to return false.
C1_FirstFalseIsCall4NPlus1 ==
  (N >= 1 /\ stepCalls >= 1) => (ret = "true" <=> stepCalls <= 4 * N)

\* C1 amended: the k-th step() call since the program was loaded returns
\* true exactly when k < 4N: the first 4N-1 calls return true, and call 4N,
\* which runs the last STORE phase, is the first to return false, as does
\* every later call.
C1_FirstFalseIsCall4N ==
  (N >= 1 /\ stepCalls >= 1) => (ret = "true" <=> stepCalls < 4 * N)

\* the call that runs the last phase has returned false, and so has the
\* call after it
C1_Witness ==
  /\ N >= 1
  /\ stepCalls = 4 * N + 1
  /\ ret = "false"
  /\ cpu.clockCycle = 4 * N

(***************************************************************************)
(* C2  End-to-end calculator scenario.                                     *)
(***************************************************************************)
\* C2: after setExample(CALCULATOR, 5 + 3) on a fresh engine and 16 step()
\* calls, R3 holds 8 and the memory cell at address 0x100 holds 8.
C2_CalculatorEndToEnd ==
  ( /\ loads = 1
    /\ resets = 0
    /\ currentInstructions = generateCalculatorInstructions(5, 3, "+")
    /\ stepCalls = 16 )
  => /\ RegisterValue("R3") = Num(8)
     /\ CalcStoreAddress \in Addresses
     /\ Cell(cpu.memory, CalcStoreAddress).value = Num(8)

(***************************************************************************)
(* C10  The phase cycle.                                                   *)
(***************************************************************************)
\* C10: currentPhase is IDLE before the first step, then follows FETCH,
\* DECODE, EXECUTE, STORE, FETCH, ... with the steps, and is IDLE again once
\* the instruction list is exhausted.
C10_PhaseCycleEndsIdle ==
  IF cpu.clockCycle = 0 THEN cpu.currentPhase = "IDLE"
  ELSE IF instructionIndex < N
    THEN cpu.currentPhase = phases[((cpu.clockCycle - 1) % 4) + 1]
    ELSE cpu.currentPhase = "IDLE"

(***************************************************************************)
(* C3  Write-through.                                                      *)
(***************************************************************************)
\* the history record i is the EXECUTE step of a STORE that wrote memory
IsStoreWrite(i) ==
  /\ state.history[i].phase = "EXECUTE"
  /\ state.history[i].instruction.opcode = "STORE"
  /\ Len(state.history[i].memoryChanges) = 1

\* the history record j is the EXECUTE step of a LOAD with address x
IsLoadOf(j, x) ==
  /\ state.history[j].phase = "EXECUTE"
  /\ state.history[j].instruction.opcode = "LOAD"
  /\ state.history[j].instruction.address = x

\* C3: when a STORE has written v to address X and the next LOAD with
\* address X has executed, with no write to X in between, that LOAD has set
\* its destination register to v.
C3_WriteThrough ==
  \A i, j \in DOMAIN state.history :
    LET x == state.history[i].memoryChanges[1].address
        v == state.history[i].memoryChanges[1].newValue
        load == state.history[j]
    IN  ( /\ i < j
          /\ IsStoreWrite(i)
          /\ IsLoadOf(j, x)
          /\ \A k \in (i + 1)..(j - 1) : ~IsStoreWrite(k) /\ ~IsLoadOf(k, x) )
        => /\ Len(load.registerChanges) = 1
           /\ load.registerChanges[1].name = load.instruction.destination
           /\ load.registerChanges[1].newValue = v

(***************************************************************************)
(* C4  Cache uniqueness.                                                   *)
(***************************************************************************)
ValidLines(c) == {i \in DOMAIN cpu.cache[c].lines : cpu.cache[c].lines[i].valid}

\* C4: in every reachable state each cache level holds at most one valid
\* line for any given address.
C4_OneValidLinePerAddress ==
  \A c \in DOMAIN cpu.cache :
    \A i, j \in ValidLines(c) :
      cpu.cache[c].lines[i].address = cpu.cache[c].lines[j].address => i = j

\* L1 holds two valid lines after hits and misses of loads and stores
C4_Witness ==
  /\ Cardinality(ValidLines(1)) >= 2
  /\ cpu.cache[1].hits >= 1
  /\ cpu.cache[1].misses >= 2
  /\ \E i \in ValidLines(1) : cpu.cache[1].lines[i].dirty

(***************************************************************************)
(* C6  Reset completeness.                                                 *)
(***************************************************************************)
ResetComplete ==
  /\ \A r \in RegisterNames :
       cpu.registers[r].value = Zero /\ ~cpu.registers[r].active
  \* every cell: the cells cpu.memory holds explicitly, and InitialCell for
  \* all the others
  /\ \A cell \in {InitialCell} \cup {cpu.memory[a] : a \in DOMAIN cpu.memory} :
       /\ cell.value = Zero
       /\ ~cell.used
       /\ ~cell.active
  /\ \A c \in DOMAIN cpu.cache :
       /\ \A i \in DOMAIN cpu.cache[c].lines : ~cpu.cache[c].lines[i].valid
       /\ cpu.cache[c].hits = 0
       /\ cpu.cache[c].misses = 0
  /\ cpu.clockCycle = 0
  /\ cpu.programCounter = 0
  /\ cpu.instructionRegister = << >>
  /\ cpu.currentPhase = "IDLE"
  /\ state.history = << >>
  /\ state.busTransfers = << >>
  /\ currentInstructions = << >>
  /\ instructionIndex = 0

\* C6: every reset() call, in whatever state it is made, leaves all
\* registers 0 and inactive, all memory cells 0, unused and inactive, every
\* cache line invalid with counters 0, clockCycle = 0, programCounter = 0,
\* no instruction register, phase IDLE, empty history and bus log, an empty
\* program and instruction index 0.
C6_ResetCompleteness == [][resets' = resets + 1 => ResetComplete']_vars

\* the engine has just been reset after a run that had written memory and
\* filled cache lines (the bus log of that run is still being cleaned up)
C6_Witness ==
  /\ resets = 1
  /\ ResetComplete
  /\ stepCalls = 0
  /\ Len(busTimers) >= 9

(***************************************************************************)
(* C5  LRU correctness of the read path.                                   *)
(***************************************************************************)
Resident(c, address) ==
  \E i \in ValidLines(c) : cpu.cache[c].lines[i].address = address

ReadAddress(k) == currentInstructions[k].address

\* the engine was constructed, given a program of reads of distinct
\* addresses and has executed exactly its first k reads
HasRead(k) ==
  /\ currentInstructions \in ReadPrograms
  /\ loads = 0
  /\ resets = 0
  /\ N >= k
  /\ cpu.clockCycle >= 4 * (k - 1) + 3
  /\ cpu.clockCycle < 4 * k + 3

\* C5: starting from an empty L1 of at least 3 lines, after reads of
\* distinct addresses A, B, C in that order all three are resident in L1;
\* on an L1 of exactly 3 lines the read of a fourth address D then evicts A
\* and leaves B and C resident.
C5_LruReadPath ==
  /\ (L1Size >= 3 /\ HasRead(3))
       => \A k \in 1..3 : Resident(1, ReadAddress(k))
  /\ (L1Size = 3 /\ HasRead(4))
       => /\ ~Resident(1, ReadAddress(1))
          /\ \A k \in 2..4 : Resident(1, ReadAddress(k))

(***************************************************************************)
(* C8, C9  Arithmetic of the cycle stepper.                                *)
(***************************************************************************)
\* this step is a step() call that runs the EXECUTE phase of an
\* instruction whose opcode is in opcodes
ExecutesOpcode(opcodes) ==
  /\ instructionIndex < N
  /\ phaseIndex = 2
  /\ currentInstructions[instructionIndex + 1].opcode \in opcodes
  /\ stepCalls' = stepCalls + 1

CurrentInstruction == currentInstructions[instructionIndex + 1]

\* the operand is a literal or names a register of the bank
Resolves(operand) ==
  \/ IsNumber(operand)
  \/ IsString(operand) /\ operand.r \in RegisterNames

\* the value the operand resolves to in the current state
Resolve(operand) ==
  IF IsNumber(operand) THEN Num(operand.n) ELSE RegisterValue(operand.r)

\* floor(a / b) for integers a and b # 0
FloorDiv(a, b) == IF b > 0 THEN a \div b ELSE (-a) \div (-b)

Expected(opcode, a, b) ==
  CASE opcode = "ADD" -> a + b
    [] opcode = "SUB" -> a - b
    [] opcode = "MUL" -> a * b
    [] opcode = "DIV" -> FloorDiv(a, b)

\* C8: EXECUTE of ADD, SUB, MUL or DIV whose operands resolve to integers a
\* and b (b # 0 for DIV) writes a+b, a-b, a*b, floor(a/b) to the destination
\* register.
C8_ArithmeticTable ==
  [][ ( /\ ExecutesOpcode(AluOpcodes)
        /\ Resolves(CurrentInstruction.operand1)
        /\ Resolves(CurrentInstruction.operand2)
        /\ IsInt(Resolve(CurrentInstruction.operand1))
        /\ IsInt(Resolve(CurrentInstruction.operand2))
        /\ CurrentInstruction.destination \in RegisterNames
        /\ CurrentInstruction.opcode = "DIV"
             => Resolve(CurrentInstruction.operand2) # Zero )
      => state'.cpu.registers[CurrentInstruction.destination].value
           = Num(Expected(CurrentInstruction.opcode,
                          Resolve(CurrentInstruction.operand1).num,
                          Resolve(CurrentInstruction.operand2).num)) ]_vars

\* C9: EXECUTE of a DIV whose second operand resolves to 0, be it a
\* register holding 0 or the literal 0, writes 0 to the destination
\* register and records that register delta in the step's history record.
C9_DivisionByZero ==
  [][ ( /\ ExecutesOpcode({"DIV"})
        /\ Resolves(CurrentInstruction.operand1)
        /\ Resolves(CurrentInstruction.operand2)
        /\ Resolve(CurrentInstruction.operand1) # Zero
        /\ Resolve(CurrentInstruction.operand2) = Zero
        /\ CurrentInstruction.destination \in RegisterNames )
      => /\ state'.cpu.registers[CurrentInstruction.destination].value = Zero
         /\ state'.history[Len(state'.history)].registerChanges
              = << [name |-> CurrentInstruction.destination,
                    oldValue |-> RegisterValue(CurrentInstruction.destination),
                    newValue |-> Zero] >> ]_vars

(***************************************************************************)
(* C7.  Determinism: two runs that start from the same machine state with  *)
(* the same instruction list and step to completion produce identical      *)
(* histories and identical final states, the bus log included.  The first  *)
(* run starts on the newly constructed engine, the second after reset();   *)
(* both load the same calculator program.  The object getState() returned  *)
(* after the first run keeps that run's final state: reset() gives the     *)
(* engine a new one.                                                       *)
(***************************************************************************)
ReplayComplete ==
  /\ snapshot # << >>
  /\ resets = 1
  /\ loads = 2
  /\ currentInstructions = snapshot[1].instructions
  /\ instructionIndex >= N

\* C7: when the second run has completed, its history and its final state
\* (registers, memory, cache, counters and bus log) equal those of the first.
C7_Determinism ==
  ReplayComplete =>
    /\ state.history = snapshot[1].state.history
    /\ state.cpu = snapshot[1].state.cpu
    /\ state.busTransfers = snapshot[1].state.busTransfers

(***************************************************************************)
(* C11  One phase of one instruction per effective step.                   *)
(***************************************************************************)
\* clockCycle = length of history = 4 * instructionIndex + phaseIndex, with
\* the cursor inside its ranges
CursorAccounting ==
  /\ cpu.clockCycle = Len(state.history)
  /\ cpu.clockCycle = 4 * instructionIndex + phaseIndex
  /\ phaseIndex \in 0..3
  /\ instructionIndex \in 0..N

\* this step is a step() call that passes its guards
EffectiveStep ==
  /\ stepCalls' = stepCalls + 1
  /\ N # 0
  /\ instructionIndex < N

\* C11: every effective step() raises clockCycle by exactly 1, appends exactly
\* one history record carrying the new cycle and the phase just run, and
\* moves the instruction index by 1 exactly when the phase run was the
\* fourth; so in every reachable state clockCycle = length of history
\* = 4 * instructionIndex + phaseIndex, 0 <= phaseIndex <= 3 and
\* 0 <= instructionIndex <= N.
C11_OnePhasePerStep ==
  /\ CursorAccounting
  /\ [][ /\ CursorAccounting'
         /\ EffectiveStep =>
              /\ state'.cpu.clockCycle = cpu.clockCycle + 1
              /\ Len(state'.history) = Len(state.history) + 1
              /\ state'.history[Len(state'.history)].cycle = state'.cpu.clockCycle
              /\ state'.history[Len(state'.history)].phase = phases[phaseIndex + 1]
              /\ state'.cpu.currentPhase = phases[phaseIndex + 1]
              /\ SubSeq(state'.history, 1, Len(state.history)) = state.history
              /\ instructionIndex' = IF phaseIndex = 3 THEN instructionIndex + 1
                                                       ELSE instructionIndex
              /\ phaseIndex' = (phaseIndex + 1) % 4 ]_vars

\* the third phase of the second instruction has just run
C11_Witness ==
  /\ stepCalls = 7
  /\ instructionIndex = 1
  /\ phaseIndex = 3
  /\ cpu.clockCycle = 7
  /\ cpu.currentPhase = "EXECUTE"

(***************************************************************************)
(* An engine that has run a program of memory instructions and is then     *)
(* given an example with setExample(), with or without exampleData.        *)
(***************************************************************************)
\* programs that store R1 to address 0 after or before loading it
ReloadPrograms ==
  { << Instr("load", "LOAD", Lit(LoadOperand), NoOperand, "R1", 0),
       Instr("store", "STORE", NoOperand, NoOperand, "R1", 0) >>,
    << Instr("store", "STORE", NoOperand, NoOperand, "R1", 0),
       Instr("load", "LOAD", Lit(LoadOperand), NoOperand, "R1", 1) >>,
    << Instr("store", "STORE", NoOperand, NoOperand, "R1", 0) >> }

LoadReloadProgram ==
  \E instructions \in ReloadPrograms :
    loadProgram(instructions)

ReloadExample ==
  /\ loads < MaxRestarts
  /\ \/ SetExampleCalculator
     \/ SetExampleTrafficLight
     \/ SetExampleNoData

NextReload ==
  \/ LoadReloadProgram
  \/ ReloadExample
  \/ StepExhausted
  \/ StepPhase
  \/ reset

SpecReload == Init /\ [][NextReload]_vars

(***************************************************************************)
(* C12  Frame of setExample().                                             *)
(***************************************************************************)
\* this step is a setExample() call
SetExampleCall == loads' = loads + 1

\* after the call the cursor and the CPU counters are those of a machine
\* that has not stepped yet
CursorReset ==
  /\ instructionIndex' = 0
  /\ phaseIndex' = 0
  /\ state'.cpu.programCounter = 0
  /\ state'.cpu.instructionRegister = << >>
  /\ state'.cpu.currentPhase = "IDLE"
  /\ state'.cpu.clockCycle = 0
  /\ state'.busTransfers = << >>
  /\ state'.history = << >>

\* C12 as stated: setExample() in any reachable state resets the cursor and
\* leaves every register (value and active flag), every memory cell (value
\* and used flag) and every cache line and counter unchanged.
C12_SetExampleKeepsUsedFlags ==
  [][ SetExampleCall =>
        /\ CursorReset
        /\ state'.cpu.registers = cpu.registers
        /\ \A a \in Addresses :
             /\ Cell(state'.cpu.memory, a).value = Cell(cpu.memory, a).value
             /\ Cell(state'.cpu.memory, a).used = Cell(cpu.memory, a).used
        /\ state'.cpu.cache = cpu.cache ]_vars

(***************************************************************************)
(* C15  The used flag of a memory cell.                                    *)
(***************************************************************************)
\* C15 as stated: a used flag that is true stays true through every step
\* other than reset().
C15_UsedFlagSticky ==
  [][ \A a \in Addresses :
        (Cell(cpu.memory, a).used /\ resets' = resets)
          => Cell(state'.cpu.memory, a).used ]_vars

(***************************************************************************)
(* C13  Deferred callbacks that outlive reset() or setExample().           *)
(***************************************************************************)
\* the history, emptied by reset() and setExample(), holds no STORE phase:
\* every pending cache callback was scheduled before that call
AllCacheTimersStale ==
  \A i \in DOMAIN state.history : state.history[i].phase # "STORE"

\* this step is the firing of a cache callback scheduled before the last
\* reset() or setExample()
StaleCacheTimerFires ==
  /\ Len(cacheTimers') = Len(cacheTimers) - 1
  /\ AllCacheTimersStale

\* this step is the firing of a bus callback whose transfer was logged
\* before the last reset() or setExample()
StaleBusTimerFires ==
  \E k \in DOMAIN busTimers :
    /\ busTimers' = Without(busTimers, k)
    /\ \A i \in DOMAIN state.busTransfers :
         state.busTransfers[i].id > busTimers[k].id

\* C13: a deferred callback scheduled before reset() or setExample() that
\* fires later, interleaved with later step() calls, changes no field of
\* the machine state.
C13_StaleCallbacksHarmless ==
  [][ (StaleCacheTimerFires \/ StaleBusTimerFires) => state' = state ]_vars

(***************************************************************************)
(* C16  An exhausted or empty machine is inert.                            *)
(***************************************************************************)
\* this step is a step() call on a machine with no program or with its
\* instruction index at the program length
ExhaustedStepCall ==
  /\ stepCalls' = stepCalls + 1
  /\ \/ N = 0
     \/ instructionIndex >= N

\* C16: step() on an empty or exhausted machine returns false and leaves the
\* whole state unchanged (clockCycle, phase, history, registers, memory,
\* cache, bus log, instruction index, phase index, instruction list).
C16_ExhaustedStepInert ==
  [][ ExhaustedStepCall =>
        /\ ret' = "false"
        /\ state' = state
        /\ instructionIndex' = instructionIndex
        /\ phaseIndex' = phaseIndex
        /\ currentInstructions' = currentInstructions ]_vars

\* the four-instruction program has run its 16 phases and step() has been
\* called once more
C16_Witness ==
  /\ N = 4
  /\ stepCalls = 4 * N + 1
  /\ instructionIndex = N
  /\ cpu.clockCycle = 4 * N
  /\ ret = "false"

(***************************************************************************)
(* GameEngine: the operations.  The values a call draws from Math.random() *)
(* and Date.now() are parameters of its action.                            *)
(***************************************************************************)
\* generateNewTask(): the queue with the drawn task pushed
PushTask(g, task) == [g EXCEPT !.taskQueue = Append(@, task)]

\* the tasks generateNewTask() can draw in mode at level under the id,
\* operands and operators from calculatorDraws, scenarios from trafficDraws
DrawnTasks(mode, level, id, calculatorDraws, trafficDraws) ==
  IF mode = "CALCULATOR"
    THEN { generateCalculatorTask(level, d.operand1, d.operand2, d.operator, id) :
             d \in calculatorDraws }
    ELSE { generateTrafficLightTask(level, d.currentState, d.sensorInput, id) :
             d \in trafficDraws }

startGame(mode, task) ==
  /\ game' = PushTask([game EXCEPT !.mode = mode, !.isPlaying = TRUE, !.level = 1,
                                   !.score = 0, !.energy = Num(100),
                                   !.clockCycle = 0, !.taskQueue = << >>,
                                   !.accuracy = 100, !.efficiency = Num(100),
                                   !.speedBonus = 0],
                      task)
  /\ gameCall' = [op |-> "startGame", arg |-> mode, ret |-> << >>]
  /\ taskSeq' = taskSeq + 1
  /\ gameStarts' = gameStarts + 1
  /\ UNCHANGED << simVars, pauses >>

generateNewTask(task) ==
  /\ game' = PushTask(game, task)
  /\ gameCall' = [op |-> "generateNewTask", arg |-> << >>, ret |-> << >>]
  /\ taskSeq' = taskSeq + 1
  /\ UNCHANGED << simVars, gameStarts, pauses >>

\* a processPlayerAction that runs the instruction before it asks
\* executeInstruction whether it may
ApplyPlayerActionUngated(g, instruction, result) ==
  LET energy == NumMax(Zero, NumSub(g.energy, result.energyCost))
  IN  [g EXCEPT !.registers = executeInstructionOnRegisters(@, instruction),
                !.clockCycle = @ + result.cyclesUsed,
                !.energy = energy,
                !.isPlaying = IF NumLeq(energy, Zero) THEN FALSE ELSE @]

\* the game state processPlayerAction(instruction) leaves when
\* executeInstruction returned result
ApplyPlayerAction(g, instruction, result) ==
  IF result.success
    THEN LET energy == NumMax(Zero, NumSub(g.energy, result.energyCost))
         IN  [g EXCEPT !.registers = executeInstructionOnRegisters(@, instruction),
                       !.clockCycle = @ + result.cyclesUsed,
                       !.energy = energy,
                       !.isPlaying = IF NumLeq(energy, Zero) THEN FALSE ELSE @]
    ELSE g

processPlayerAction(instruction, cacheMiss) ==
  LET result == executeInstruction(instruction, game.registers, game.level, cacheMiss)
  IN  /\ game' = ApplyPlayerAction(game, instruction, result)
      /\ gameCall' = [op |-> "processPlayerAction", arg |-> instruction, ret |-> result]
      /\ UNCHANGED << simVars, taskSeq, gameStarts, pauses >>

\* updateAccuracy(success): the new accuracy
updateAccuracy(accuracy, success) ==
  IF success
    THEN (IF accuracy + 1 < 100 THEN accuracy + 1 ELSE 100)
    ELSE (IF accuracy - 5 > 0 THEN accuracy - 5 ELSE 0)

levelUp(g) ==
  [g EXCEPT !.level = @ + 1, !.energy = g.maxEnergy, !.speedBonus = @ + 10]

\* taskQueue.findIndex((t) => t.id === taskId): 0 when there is none
FindTask(taskQueue, taskId) ==
  LET found == {i \in DOMAIN taskQueue : taskQueue[i].id = taskId}
  IN  IF found = {} THEN 0 ELSE CHOOSE i \in found : \A j \in found : i <= j

\* taskQueue.splice(index): everything from index on is removed
RemoveFrom(taskQueue, index) ==
  SubSeq(taskQueue, 1, index - 1)

\* taskQueue.splice(index, 1)
RemoveAt(taskQueue, index) ==
  SubSeq(taskQueue, 1, index - 1) \o SubSeq(taskQueue, index + 1, Len(taskQueue))

\* a result submitted by the player: a number or one of the light names
NumberResult(x) == [k |-> "number", v |-> x, s |-> ""]
StringResult(s) == [k |-> "string", v |-> Zero, s |-> s]

\* isValid of submitTaskResult
IsValidResult(g, task, result) ==
  IF g.mode = "CALCULATOR" /\ result.k = "number"
    THEN validateCalculatorTask(task, result.v)
  ELSE IF g.mode = "TRAFFIC_LIGHT" /\ result.k = "string"
    THEN validateTrafficLightTask(task, result.s)
  ELSE FALSE

\* submitTaskResult(taskId, result): the state it leaves and the value it
\* returns; calculatorDraw, trafficDraw and id are the values
\* generateNewTask() draws if it is called
SubmitOutcome(g, taskId, result, calculatorDraw, trafficDraw, id) ==
  LET taskIndex == FindTask(g.taskQueue, taskId)
  IN  IF taskIndex = 0
        THEN [game |-> g, drew |-> FALSE,
              ret |-> [success |-> FALSE, score |-> 0, completed |-> FALSE]]
        ELSE
          LET task == g.taskQueue[taskIndex]
          IN  IF ~IsValidResult(g, task, result)
                THEN [game |-> [g EXCEPT !.taskQueue = RemoveAt(@, taskIndex),
                                         !.accuracy = updateAccuracy(@, FALSE)],
                      drew |-> FALSE,
                      ret |-> [success |-> FALSE, score |-> 0, completed |-> TRUE]]
                ELSE
                  LET optimalCycles == IF g.mode = "CALCULATOR"
                                         THEN getOptimalCalculatorCycles(task)
                                         ELSE getOptimalTrafficLightCycles(task)
                      efficiency == calculateEfficiency(
                                      Num(g.clockCycle), NumSub(g.maxEnergy, g.energy),
                                      Num(optimalCycles), Num(optimalCycles * 2))
                      score == calculateScore(TRUE, g.clockCycle, task.timeLimit,
                                              task.points, efficiency)
                      g1 == [g EXCEPT !.score = @ + score,
                                      !.taskQueue = RemoveAt(@, taskIndex),
                                      !.accuracy = updateAccuracy(@, TRUE),
                                      !.efficiency = efficiency]
                      low == Len(g1.taskQueue) < 2
                      newTask == IF g1.mode = "CALCULATOR"
                                   THEN generateCalculatorTask(
                                          g1.level, calculatorDraw.operand1,
                                          calculatorDraw.operand2,
                                          calculatorDraw.operator, id)
                                   ELSE generateTrafficLightTask(
                                          g1.level, trafficDraw.currentState,
                                          trafficDraw.sensorInput, id)
                      g2 == IF low THEN PushTask(g1, newTask) ELSE g1
                      g3 == IF g2.score >= g2.level * 1000 THEN levelUp(g2) ELSE g2
                  IN  [game |-> g3, drew |-> low,
                       ret |-> [success |-> TRUE, score |-> score, completed |-> TRUE]]

submitTaskResult(taskId, result, calculatorDraw, trafficDraw) ==
  LET outcome == SubmitOutcome(game, taskId, result, calculatorDraw, trafficDraw,
                               taskSeq + 1)
  IN  /\ game' = outcome.game
      /\ gameCall' = [op |-> "submitTaskResult",
                      arg |-> [taskId |-> taskId, result |-> result],
                      ret |-> outcome.ret]
      /\ taskSeq' = IF outcome.drew THEN taskSeq + 1 ELSE taskSeq
      /\ UNCHANGED << simVars, gameStarts, pauses >>

\* taskQueue.forEach(callback) of advanceClock, from index k (counted from
\* 1) of the len elements the queue had when forEach started: the callback
\* splices the expired task out of the queue forEach is walking
RECURSIVE ExpireFrom(_, _, _, _)
ExpireFrom(g, k, len, clockCycle) ==
  IF k > len
    THEN g
    ELSE IF k > Len(g.taskQueue)
      THEN ExpireFrom(g, k + 1, len, clockCycle)
      ELSE LET task == g.taskQueue[k]
               index == FindTask(g.taskQueue, task.id)
           IN  IF clockCycle > task.timeLimit /\ index > 0
                 THEN ExpireFrom([g EXCEPT !.taskQueue = RemoveAt(@, index),
                                           !.accuracy = updateAccuracy(@, FALSE)],
                                 k + 1, len, clockCycle)
                 ELSE ExpireFrom(g, k + 1, len, clockCycle)

\* advanceClock() while the game is playing; spawn is the outcome of
\* Math.random() > 0.7
AdvanceOutcome(g, spawn, task) ==
  LET g1 == [g EXCEPT !.clockCycle = @ + 1]
      g2 == ExpireFrom(g1, 1, Len(g1.taskQueue), g1.clockCycle)
      drew == Len(g2.taskQueue) < 3 /\ spawn
  IN  [game |-> IF drew THEN PushTask(g2, task) ELSE g2, drew |-> drew]

advanceClock(spawn, task) ==
  /\ gameCall' = [op |-> "advanceClock", arg |-> << >>, ret |-> << >>]
  /\ IF ~game.isPlaying
       THEN UNCHANGED << game, taskSeq >>
       ELSE LET outcome == AdvanceOutcome(game, spawn, task)
            IN  /\ game' = outcome.game
                /\ taskSeq' = IF outcome.drew THEN taskSeq + 1 ELSE taskSeq
  /\ UNCHANGED << simVars, gameStarts, pauses >>

\* GameEngine.reset()
gameReset ==
  /\ game' = gameCreateInitialState
  /\ gameCall' = [op |-> "reset", arg |-> << >>, ret |-> << >>]
  /\ gameStarts' = gameStarts + 1
  /\ UNCHANGED << simVars, taskSeq, pauses >>

togglePause ==
  /\ game' = [game EXCEPT !.isPlaying = ~@]
  /\ gameCall' = [op |-> "togglePause", arg |-> << >>, ret |-> << >>]
  /\ pauses' = pauses + 1
  /\ UNCHANGED << simVars, taskSeq, gameStarts >>

(***************************************************************************)
(* A calculator game in which the player loads numbers into R1 and R2 and  *)
(* then runs one arithmetic instruction into R3, each operand given as the *)
(* register or as a literal.                                               *)
(***************************************************************************)
CalculatorDraws ==
  { [operand1 |-> 6, operand2 |-> 3, operator |-> "/"],
    [operand1 |-> 5, operand2 |-> 3, operator |-> "+"] }

TrafficDraws ==
  { [currentState |-> "RED", sensorInput |-> TRUE],
    [currentState |-> "GREEN", sensorInput |-> FALSE] }

StartCalculatorGame ==
  /\ gameStarts < MaxGameStarts
  /\ \E task \in DrawnTasks("CALCULATOR", 1, taskSeq + 1, CalculatorDraws, TrafficDraws) :
       startGame("CALCULATOR", task)

GameLoadInstructions ==
  { Instr("load", "LOAD", Lit(v), NoOperand, r, NoAddress) :
      v \in AluValues, r \in {"R1", "R2"} }

GameAluInstructions ==
  { Instr("compute", opcode, operand1, operand2, "R3", NoAddress) :
      opcode \in AluOpcodes,
      operand1 \in {Ref("R1")} \cup {Lit(v) : v \in AluValues},
      operand2 \in {Ref("R2")} \cup {Lit(v) : v \in AluValues} }

PlayerLoads ==
  /\ game.isPlaying
  /\ game.clockCycle < MaxGameClock
  /\ \E instruction \in GameLoadInstructions, cacheMiss \in BOOLEAN :
       processPlayerAction(instruction, cacheMiss)

\* the one arithmetic instruction, run while R3 has not been written
PlayerComputes ==
  /\ game.isPlaying
  /\ ~game.registers["R3"].active
  /\ \E instruction \in GameAluInstructions, cacheMiss \in BOOLEAN :
       processPlayerAction(instruction, cacheMiss)

NextGameAlu ==
  \/ StartCalculatorGame
  \/ PlayerLoads
  \/ PlayerComputes

SpecGameAlu == Init /\ [][NextGameAlu]_vars

(***************************************************************************)
(* C14  One arithmetic for the two drivers.                                *)
(***************************************************************************)
\* the SimulationEngine state whose registers R1..R3 hold what the game's
\* register bank holds, at the start of an EXECUTE phase
StepperWithRegisters(registers) ==
  [state |-> [createInitialState EXCEPT
                !.cpu.registers = [r \in RegisterNames |->
                                     IF r \in DOMAIN registers THEN registers[r] ELSE @[r]]],
   step |-> [cycle |-> 1, phase |-> "EXECUTE", instruction |-> << >>,
             registerChanges |-> << >>, memoryChanges |-> << >>],
   busTimers |-> << >>, cacheTimers |-> << >>, entropy |-> 0]

\* the value the cycle stepper's EXECUTE phase leaves in the destination
StepperResult(registers, instruction) ==
  executeExecute(StepperWithRegisters(registers), instruction)
    .state.cpu.registers[instruction.destination].value

\* this step is a processPlayerAction call that ran an ADD/SUB/MUL/DIV
PlayerComputed ==
  /\ gameCall'.op = "processPlayerAction"
  /\ gameCall'.arg.opcode \in AluOpcodes
  /\ gameCall'.ret.success
  /\ game'.clockCycle = game.clockCycle + gameCall'.ret.cyclesUsed

\* C14: for every ADD/SUB/MUL/DIV instruction and every content of R1..R3,
\* the value GameEngine.processPlayerAction leaves in the destination
\* register equals the value the cycle stepper's EXECUTE phase leaves there
\* for the same instruction and register contents.
C14_DriversAgree ==
  [][ PlayerComputed =>
        game'.registers[gameCall'.arg.destination].value
          = StepperResult(game.registers, gameCall'.arg) ]_vars

(***************************************************************************)
(* A calculator game in which the player submits correct results, which    *)
(* raises the level, and runs instructions that name registers of the bank *)
(* and registers that are not in it.                                       *)
(***************************************************************************)
GateInstructions ==
  { Instr("load", "LOAD", Lit(5), NoOperand, "R1", NoAddress),
    Instr("load", "LOAD", Lit(5), NoOperand, "R4", NoAddress),
    Instr("compute", "ADD", Ref("R1"), Ref("R2"), "R3", NoAddress),
    Instr("compute", "ADD", Ref("R1"), Ref("R4"), "R3", NoAddress),
    Instr("compute", "DIV", Ref("R4"), Ref("R2"), "R3", NoAddress),
    Instr("compute", "MUL", Ref("R1"), Ref("R2"), "R5", NoAddress),
    Instr("compute", "SUB", Lit(1), Lit(2), "", NoAddress) }

PlayerActs ==
  /\ game.isPlaying
  /\ game.clockCycle < MaxGameClock
  /\ \E instruction \in GateInstructions, cacheMiss \in BOOLEAN :
       processPlayerAction(instruction, cacheMiss)

\* the player submits the expected result of a queued calculation
SubmitsCorrectResult ==
  /\ game.level < MaxGameLevel
  /\ \E i \in DOMAIN game.taskQueue, calculatorDraw \in CalculatorDraws,
        trafficDraw \in TrafficDraws :
       submitTaskResult(game.taskQueue[i].id,
                        NumberResult(Num(game.taskQueue[i].operation.expectedResult)),
                        calculatorDraw, trafficDraw)

\* startGame(CALCULATOR) on a fresh engine
StartsCalculatorOnce ==
  /\ gameStarts = 0
  /\ StartCalculatorGame

NextGameGate ==
  \/ StartsCalculatorOnce
  \/ PlayerActs
  \/ SubmitsCorrectResult

SpecGameGate == Init /\ [][NextGameGate]_vars

(***************************************************************************)
(* C17  Register gating of the game driver.                                *)
(***************************************************************************)
\* the registers the instruction names as operand1, operand2 or destination
NamedRegisters(instruction) ==
  (IF IsString(instruction.operand1) THEN {instruction.operand1.r} ELSE {})
  \cup (IF IsString(instruction.operand2) THEN {instruction.operand2.r} ELSE {})
  \cup (IF instruction.destination # "" THEN {instruction.destination} ELSE {})

\* C17: processPlayerAction fails exactly when the opcode is ADD, SUB, MUL
\* or DIV, the level is greater than 1 and some register the instruction
\* names is absent from the register bank, whatever the registers hold; a
\* failed action leaves the game state unchanged.
C17_RegisterGating ==
  [][ gameCall'.op = "processPlayerAction" =>
        /\ ~gameCall'.ret.success
             <=> /\ gameCall'.arg.opcode \in AluOpcodes
                 /\ game.level > 1
                 /\ \E r \in NamedRegisters(gameCall'.arg) : r \notin GameRegisterNames
        /\ ~gameCall'.ret.success => game' = game ]_vars

\* at level 2, with R1 holding 5, an ADD naming R4 has just failed
C17_Witness ==
  /\ gameCall.op = "processPlayerAction"
  /\ ~gameCall.ret.success
  /\ gameCall.arg.operand2 = Ref("R4")
  /\ game.level = 2
  /\ game.registers["R1"].value = Num(5)

(***************************************************************************)
(* A calculator game played until the energy is spent: the player submits  *)
(* correct results, loads R1 again and again, pauses and resumes, and at   *)
(* the higher levels tries an ADD that names a register outside the bank.  *)
(***************************************************************************)
SpendingInstruction == Instr("load", "LOAD", Lit(5), NoOperand, "R1", NoAddress)
GatedInstruction == Instr("compute", "ADD", Ref("R1"), Ref("R4"), "R3", NoAddress)

PlayerSpends ==
  /\ game.isPlaying
  /\ \E cacheMiss \in BOOLEAN : processPlayerAction(SpendingInstruction, cacheMiss)

PlayerTriesGated ==
  /\ game.isPlaying
  /\ game.level > 1
  /\ \E cacheMiss \in BOOLEAN : processPlayerAction(GatedInstruction, cacheMiss)

PlayerPauses ==
  /\ pauses < MaxPauses
  /\ togglePause

\* results are submitted before the clock passes MaxGameClock
SubmitsEarly ==
  /\ game.clockCycle < MaxGameClock
  /\ SubmitsCorrectResult

NextGameEnergy ==
  \/ StartCalculatorGame
  \/ SubmitsEarly
  \/ PlayerSpends
  \/ PlayerTriesGated
  \/ PlayerPauses

SpecGameEnergy == Init /\ [][NextGameEnergy]_vars

(***************************************************************************)
(* C18  Energy depletion stops the game.                                   *)
(***************************************************************************)
\* C18: energy is never below 0, and after every processPlayerAction that
\* leaves energy at 0 the game is not playing.
C18_DepletionStopsGame ==
  /\ NumLeq(Zero, game.energy)
  /\ (gameCall.op = "processPlayerAction" /\ game.energy = Zero) => ~game.isPlaying

(***************************************************************************)
(* A game of either mode in which tasks are queued and the clock ticks.    *)
(***************************************************************************)
StartAnyGame ==
  /\ gameStarts < MaxGameStarts
  /\ \E mode \in {"CALCULATOR", "TRAFFIC_LIGHT"} :
       \E task \in DrawnTasks(mode, 1, taskSeq + 1, CalculatorDraws, TrafficDraws) :
         startGame(mode, task)

QueuesTask ==
  /\ game.isPlaying
  /\ Len(game.taskQueue) < MaxQueue
  /\ \E task \in DrawnTasks(game.mode, game.level, taskSeq + 1,
                            CalculatorDraws, TrafficDraws) :
       generateNewTask(task)

ClockTicks ==
  /\ game.clockCycle < MaxTickClock
  /\ \E spawn \in BOOLEAN :
       \E task \in DrawnTasks(game.mode, game.level, taskSeq + 1,
                              CalculatorDraws, TrafficDraws) :
         advanceClock(spawn, task)

NextGameClock ==
  \/ StartAnyGame
  \/ QueuesTask
  \/ ClockTicks
  \/ PlayerPauses

SpecGameClock == Init /\ [][NextGameClock]_vars

(***************************************************************************)
(* C19  Task expiry.                                                       *)
(***************************************************************************)
\* this step is an advanceClock() call made while the game is playing
ClockAdvanced ==
  /\ gameCall'.op = "advanceClock"
  /\ game.isPlaying
  /\ game'.clockCycle = game.clockCycle + 1

\* the ids of the tasks in the queue
QueuedIds(g) == {g.taskQueue[i].id : i \in DOMAIN g.taskQueue}

\* C19: after every advanceClock() call made while the game is playing the
\* queue holds no task whose timeLimit is less than the new clockCycle, and
\* accuracy has been lowered by 5, not below 0, once for each task removed.
C19_ExpiredTasksRemoved ==
  [][ ClockAdvanced =>
        LET removed == Cardinality(QueuedIds(game) \ QueuedIds(game'))
            lowered == game.accuracy - 5 * removed
        IN  /\ \A i \in DOMAIN game'.taskQueue :
                 ~(game'.taskQueue[i].timeLimit < game'.clockCycle)
            /\ game'.accuracy = IF lowered > 0 THEN lowered ELSE 0 ]_vars

(***************************************************************************)
(* A game of either mode in which results are submitted for tasks that are *)
(* queued, for tasks that were removed, and for ids that never existed.    *)
(***************************************************************************)
SubmittedResults ==
  { NumberResult(Num(2)), NumberResult(Frac(401, 200)), NumberResult(Num(3)),
    NumberResult(Num(8)), StringResult("GREEN"), StringResult("YELLOW") }

Submits ==
  /\ taskSeq < MaxTasks
  /\ \E taskId \in 0..taskSeq, result \in SubmittedResults,
        calculatorDraw \in CalculatorDraws, trafficDraw \in TrafficDraws :
       submitTaskResult(taskId, result, calculatorDraw, trafficDraw)

SpendsEarly ==
  /\ game.clockCycle < MaxGameClock
  /\ PlayerSpends

QueuesBounded ==
  /\ taskSeq < MaxTasks
  /\ QueuesTask

\* startGame(mode) on a fresh engine
StartsOnce ==
  /\ gameStarts = 0
  /\ StartAnyGame

NextGameSubmit ==
  \/ StartsOnce
  \/ QueuesBounded
  \/ Submits
  \/ SpendsEarly

SpecGameSubmit == Init /\ [][NextGameSubmit]_vars

(***************************************************************************)
(* C20  submitTaskResult.                                                  *)
(***************************************************************************)
\* this step is a submitTaskResult() call
SubmitCall == gameCall'.op = "submitTaskResult"

\* the result is the task's expected one and of the kind the game mode asks for
CorrectResult(g, task, result) ==
  \/ /\ g.mode = "CALCULATOR"
     /\ result.k = "number"
     /\ task.type = "calculation"
     /\ NumLess(NumAbs(NumSub(result.v, Num(task.operation.expectedResult))),
                Frac(1, 100))
  \/ /\ g.mode = "TRAFFIC_LIGHT"
     /\ result.k = "string"
     /\ task.type = "traffic_control"
     /\ result.s = task.trafficScenario.expectedAction

\* queue with the task at position i left out
QueueWithout(taskQueue, i) ==
  [j \in 1..(Len(taskQueue) - 1) |-> IF j < i THEN taskQueue[j] ELSE taskQueue[j + 1]]

\* C20: submitTaskResult with an id that is not in the queue returns
\* success=false, completed=false and changes no game state; with an id that
\* is in the queue it removes exactly that one task and returns
\* completed=true, returns success=true exactly when the result is correct
\* for the game mode, increases the score exactly then, and leaves a
\* non-empty queue after a success.
C20_SubmitContract ==
  [][ SubmitCall =>
        LET taskId == gameCall'.arg.taskId
            result == gameCall'.arg.result
            out == gameCall'.ret
            present == {i \in DOMAIN game.taskQueue : game.taskQueue[i].id = taskId}
        IN  IF present = {}
              THEN /\ ~out.success
                   /\ ~out.completed
                   /\ game' = game
              ELSE \E i \in present :
                     LET rest == QueueWithout(game.taskQueue, i)
                     IN  /\ out.completed
                         /\ Len(game'.taskQueue) >= Len(rest)
                         /\ SubSeq(game'.taskQueue, 1, Len(rest)) = rest
                         /\ \A j \in DOMAIN game'.taskQueue :
                              game'.taskQueue[j].id # taskId
                         /\ out.success <=> CorrectResult(game, game.taskQueue[i], result)
                         /\ out.success => /\ game'.score > game.score
                                           /\ game'.taskQueue # << >>
                         /\ ~out.success => /\ game'.score = game.score
                                            /\ game'.taskQueue = rest ]_vars

\* a correct result was submitted for the younger of two queued tasks; it
\* was removed, the older one stayed and the score rose
C20_Witness ==
  /\ gameCall.op = "submitTaskResult"
  /\ gameCall.ret.success
  /\ gameCall.ret.completed
  /\ game.score > 0
  /\ game.taskQueue # << >>
  /\ game.taskQueue[1].id < gameCall.arg.taskId
  /\ \A j \in DOMAIN game.taskQueue : game.taskQueue[j].id # gameCall.arg.taskId

(***************************************************************************)
(* A calculator game whose player tries one instruction of every opcode    *)
(* early on and then keeps loading R1 until the energy is spent.           *)
(***************************************************************************)
CostInstructions ==
  { Instr("load", "LOAD", Lit(5), NoOperand, "R1", NoAddress),
    Instr("load", "MOV", Lit(7), NoOperand, "R2", NoAddress),
    Instr("store", "STORE", NoOperand, NoOperand, "R1", 0),
    Instr("compute", "ADD", Ref("R1"), Ref("R2"), "R3", NoAddress),
    Instr("compute", "SUB", Ref("R1"), Ref("R1"), "R1", NoAddress),
    Instr("compute", "MUL", Ref("R1"), Ref("R2"), "R3", NoAddress),
    Instr("compute", "DIV", Ref("R2"), Ref("R1"), "R3", NoAddress),
    Instr("control", "JMP", NoOperand, NoOperand, "", 0),
    Instr("control", "JZ", NoOperand, NoOperand, "", 0),
    Instr("control", "JNZ", NoOperand, NoOperand, "", 0),
    Instr("control", "HALT", NoOperand, NoOperand, "", NoAddress),
    GatedInstruction }

PlayerTriesOpcode ==
  /\ game.clockCycle < MaxGameClock
  /\ \E instruction \in CostInstructions, cacheMiss \in BOOLEAN :
       processPlayerAction(instruction, cacheMiss)

\* results are submitted before the player has run an instruction
SubmitsAtStart ==
  /\ game.clockCycle = 0
  /\ SubmitsCorrectResult

NextGameCost ==
  \/ StartsCalculatorOnce
  \/ SubmitsAtStart
  \/ PlayerTriesOpcode
  \/ PlayerSpends

SpecGameCost == Init /\ [][NextGameCost]_vars

(***************************************************************************)
(* C21  Game cost accounting.                                              *)
(***************************************************************************)
\* this step is a processPlayerAction() call that succeeded at level 1 or 2
CostedAction ==
  /\ gameCall'.op = "processPlayerAction"
  /\ gameCall'.ret.success
  /\ game.level <= 2

\* the cycle cost of an opcode, as the table states it
TableCycles(opcode) ==
  IF opcode \in {"LOAD", "STORE", "MUL", "DIV"} THEN 3
  ELSE IF opcode \in {"JMP", "JZ", "JNZ"} THEN 2
  ELSE 1

\* twice the energy an action costs: 2 * cycles + the number of registers
\* that hold a nonzero value
TwiceTableEnergy(opcode, registers) ==
  2 * TableCycles(opcode)
    + Cardinality({r \in DOMAIN registers : registers[r].value.num # 0})

\* C21: every successful player action at level <= 2 increases clockCycle by
\* the opcode's cycle cost and decreases energy by cycles + 0.5 * (number of
\* registers nonzero before the action), clamped at 0.
C21_CostAccounting ==
  [][ CostedAction =>
        LET opcode == gameCall'.arg.opcode
            left == NumSub(game.energy, Frac(TwiceTableEnergy(opcode, game.registers), 2))
        IN  /\ game'.clockCycle = game.clockCycle + TableCycles(opcode)
            /\ game'.energy = IF left.num > 0 THEN left ELSE Zero ]_vars

\* a DIV at level 2 with two registers nonzero cost 3 cycles and 4 energy
C21_Witness ==
  /\ gameCall.op = "processPlayerAction"
  /\ gameCall.ret.success
  /\ gameCall.arg.opcode = "DIV"
  /\ game.level = 2
  /\ gameCall.ret.energyCost = Num(4)
  /\ gameCall.ret.cyclesUsed = 3

(***************************************************************************)
(* C22  Effects of FETCH.                                                  *)
(***************************************************************************)
\* this step is a step() call that runs the FETCH phase
FetchStep ==
  /\ EffectiveStep
  /\ phaseIndex = 0

\* C22: after every FETCH step the instruction register holds the
\* instruction at the current instruction index, programCounter has risen by
\* exactly 1, the PC register holds programCounter and is active, and exactly
\* two bus-transfer records were appended: ADDRESS PC->Memory, then DATA
\* Memory->IR.
C22_FetchEffects ==
  [][ FetchStep =>
        LET before == Len(state.busTransfers)
            after == state'.busTransfers
        IN  /\ state'.cpu.instructionRegister = << currentInstructions[instructionIndex + 1] >>
            /\ state'.cpu.programCounter = cpu.programCounter + 1
            /\ state'.cpu.registers["PC"].value = Num(state'.cpu.programCounter)
            /\ state'.cpu.registers["PC"].active
            /\ Len(after) = before + 2
            /\ SubSeq(after, 1, before) = state.busTransfers
            /\ after[before + 1].type = "ADDRESS"
            /\ after[before + 1].from = "PC"
            /\ after[before + 1].to = "Memory"
            /\ after[before + 2].type = "DATA"
            /\ after[before + 2].from = "Memory"
            /\ after[before + 2].to = "IR" ]_vars

\* the FETCH of the second instruction has just run
C22_Witness ==
  /\ instructionIndex = 1
  /\ phaseIndex = 1
  /\ cpu.currentPhase = "FETCH"
  /\ cpu.programCounter = 2
  /\ cpu.instructionRegister = << currentInstructions[2] >>
  /\ state.busTransfers[Len(state.busTransfers)].to = "IR"

(***************************************************************************)
(* C23  EXECUTE is the only phase that changes values.                     *)
(***************************************************************************)
\* this step is a step() call that runs a phase other than EXECUTE
OtherPhaseStep ==
  /\ EffectiveStep
  /\ phases[phaseIndex + 1] # "EXECUTE"

\* the step leaves every memory value and every cache line as it was
MemoryAndCacheKept ==
  /\ \A a \in DOMAIN cpu.memory \cup DOMAIN state'.cpu.memory :
       Cell(state'.cpu.memory, a).value = Cell(cpu.memory, a).value
  /\ \A c \in DOMAIN cpu.cache : state'.cpu.cache[c].lines = cpu.cache[c].lines

\* the step leaves the value of every register outside kept out as it was
RegisterValuesKept(out) ==
  \A r \in DOMAIN cpu.registers \ out :
    state'.cpu.registers[r].value = cpu.registers[r].value

\* the history record the step appended
AppendedRecord == state'.history[Len(state'.history)]

\* C23 as stated: the history records of FETCH, DECODE and STORE steps have
\* empty registerChanges and memoryChanges, and those steps leave every
\* register value, memory value and cache line unchanged.
C23_OnlyExecuteChangesValues ==
  [][ OtherPhaseStep =>
        /\ AppendedRecord.registerChanges = << >>
        /\ AppendedRecord.memoryChanges = << >>
        /\ RegisterValuesKept({})
        /\ MemoryAndCacheKept ]_vars

\* C23 amended: DECODE and STORE steps append a record with empty
\* registerChanges and memoryChanges and leave every register value
\* unchanged; a FETCH step appends a record whose registerChanges hold the
\* one change of PC (old value, new programCounter) and whose memoryChanges
\* are empty, and leaves every register value but PC's unchanged; none of
\* the three changes a memory value or a cache line.
C23_OnlyExecuteAndFetchPC ==
  [][ OtherPhaseStep =>
        /\ AppendedRecord.memoryChanges = << >>
        /\ MemoryAndCacheKept
        /\ IF phases[phaseIndex + 1] = "FETCH"
             THEN /\ AppendedRecord.registerChanges =
                       << [name |-> "PC", oldValue |-> RegisterValue("PC"),
                           newValue |-> Num(state'.cpu.programCounter)] >>
                  /\ RegisterValuesKept({"PC"})
             ELSE /\ AppendedRecord.registerChanges = << >>
                  /\ RegisterValuesKept({}) ]_vars

\* a STORE step has just run on an engine whose R1 and cache hold data
C23_Witness ==
  /\ cpu.currentPhase = "STORE"
  /\ phaseIndex = 0
  /\ instructionIndex = 2
  /\ state.history[Len(state.history)].registerChanges = << >>
  /\ RegisterValue("R1") # Zero
  /\ ValidLines(1) # {}
  /\ DOMAIN cpu.memory # {}

(***************************************************************************)
(* Programs with an instruction that lacks a field or names a register     *)
(* outside the bank, between a load and a store that touch R1, the cache   *)
(* and the memory.                                                         *)
(***************************************************************************)
MalformedInstructions ==
  { Instr("m", "LOAD", NoOperand, NoOperand, "R2", NoAddress),
    Instr("m", "LOAD", Ref("R1"), NoOperand, "R2", 0),
    Instr("m", "LOAD", Lit(7), NoOperand, "", 0),
    Instr("m", "LOAD", Lit(7), NoOperand, "R9", 1),
    Instr("m", "MOV", Ref("R1"), NoOperand, "R2", NoAddress),
    Instr("m", "MOV", Lit(7), NoOperand, "", NoAddress),
    Instr("m", "MOV", Lit(7), NoOperand, "R9", NoAddress),
    Instr("m", "STORE", NoOperand, NoOperand, "", 1),
    Instr("m", "STORE", NoOperand, NoOperand, "R1", NoAddress),
    Instr("m", "STORE", NoOperand, NoOperand, "R9", 1),
    Instr("m", "ADD", NoOperand, Ref("R1"), "R3", NoAddress),
    Instr("m", "SUB", Ref("R1"), NoOperand, "R3", NoAddress),
    Instr("m", "MUL", Ref("R1"), Ref("R1"), "", NoAddress),
    Instr("m", "DIV", Ref("R9"), Ref("R1"), "R3", NoAddress),
    Instr("m", "ADD", Ref("R1"), Ref("R9"), "R3", NoAddress),
    Instr("m", "ADD", Ref("R1"), Lit(2), "R9", NoAddress) }

MalformedPrograms ==
  { << Instr("load", "LOAD", Lit(LoadOperand), NoOperand, "R1", 0),
       m,
       Instr("store", "STORE", NoOperand, NoOperand, "R1", 0) >> :
      m \in MalformedInstructions }

LoadMalformedProgram ==
  \E instructions \in MalformedPrograms :
    loadProgram(instructions)

NextMalformed ==
  \/ LoadMalformedProgram
  \/ RestartProgram
  \/ StepExhausted
  \/ StepPhase
  \/ reset

SpecMalformed == Init /\ [][NextMalformed]_vars

(***************************************************************************)
(* C24  Fail-soft on malformed instructions.                               *)
(***************************************************************************)
\* the instruction lacks a field its opcode requires
LacksField(i) ==
  \/ /\ i.opcode \in {"LOAD", "MOV"}
     /\ i.operand1.k # "num" \/ i.destination = ""
  \/ /\ i.opcode = "STORE"
     /\ i.destination = "" \/ i.address = NoAddress
  \/ /\ i.opcode \in {"ADD", "SUB", "MUL", "DIV"}
     /\ i.operand1.k = "none" \/ i.operand2.k = "none" \/ i.destination = ""

\* the instruction names, in a field its opcode uses, a register that is not
\* in the bank
NamesUnknownRegister(i) ==
  \/ /\ i.opcode \in {"LOAD", "MOV", "STORE", "ADD", "SUB", "MUL", "DIV"}
     /\ i.destination # ""
     /\ i.destination \notin RegisterNames
  \/ /\ i.opcode \in {"ADD", "SUB", "MUL", "DIV"}
     /\ \/ i.operand1.k = "reg" /\ i.operand1.r \notin RegisterNames
        \/ i.operand2.k = "reg" /\ i.operand2.r \notin RegisterNames

\* this step is the EXECUTE phase of a malformed instruction
MalformedExecuteStep ==
  /\ EffectiveStep
  /\ phaseIndex = 2
  /\ \/ LacksField(currentInstructions[instructionIndex + 1])
     \/ NamesUnknownRegister(currentInstructions[instructionIndex + 1])

\* this step is the STORE phase of a malformed instruction
MalformedStoreStep ==
  /\ EffectiveStep
  /\ phaseIndex = 3
  /\ \/ LacksField(currentInstructions[instructionIndex + 1])
     \/ NamesUnknownRegister(currentInstructions[instructionIndex + 1])

\* C24: EXECUTE of an instruction that lacks a field its opcode requires or
\* names a register not in the bank leaves registers, memory and cache
\* unchanged and appends a history record with empty deltas, and the machine
\* advances to STORE and from there to the next instruction.
C24_MalformedSkipped ==
  [][ /\ MalformedExecuteStep =>
           /\ state'.cpu.registers = cpu.registers
           /\ state'.cpu.memory = cpu.memory
           /\ state'.cpu.cache = cpu.cache
           /\ Len(state'.history) = Len(state.history) + 1
           /\ state'.history[Len(state'.history)].phase = "EXECUTE"
           /\ state'.history[Len(state'.history)].registerChanges = << >>
           /\ state'.history[Len(state'.history)].memoryChanges = << >>
           /\ phaseIndex' = 3
           /\ instructionIndex' = instructionIndex
      /\ MalformedStoreStep =>
           /\ state'.cpu.currentPhase = "STORE"
           /\ phaseIndex' = 0
           /\ instructionIndex' = instructionIndex + 1 ]_vars

\* the malformed second instruction was skipped and the third one has run
\* its EXECUTE phase on the data the first one left
C24_Witness ==
  /\ N = 3
  /\ instructionIndex = 2
  /\ phaseIndex = 3
  /\ LacksField(currentInstructions[2]) \/ NamesUnknownRegister(currentInstructions[2])
  /\ state.history[7].registerChanges = << >>
  /\ state.history[7].memoryChanges = << >>
  /\ RegisterValue("R1") = Num(LoadOperand)
  /\ Cell(cpu.memory, 0).value = Num(LoadOperand)

(***************************************************************************)
(* Programs of three memory instructions over three addresses, run and     *)
(* run again on the cache the earlier run left.                            *)
(***************************************************************************)
VictimAddresses == {0, 1, 2}

VictimInstructions ==
  { Instr("load", "LOAD", Lit(LoadOperand), NoOperand, "R1", a) : a \in VictimAddresses }
  \cup { Instr("store", "STORE", NoOperand, NoOperand, "R1", a) : a \in VictimAddresses }

LoadVictimProgram ==
  \E instructions \in [1..3 -> VictimInstructions] :
    loadProgram(instructions)

NextVictim ==
  \/ LoadVictimProgram
  \/ RestartProgram
  \/ StepExhausted
  \/ StepPhase
  \/ reset

SpecVictim == Init /\ [][NextVictim]_vars

(***************************************************************************)
(* Such a program followed on the same engine by a program that writes one *)
(* address and then reads another.  setExample() sets clockCycle to 0 and  *)
(* keeps the cache, so the second run stamps its lines with clock cycles   *)
(* the first run has used and two valid lines can carry one lastAccessed.  *)
(***************************************************************************)
FollowingPrograms ==
  { << Instr("store", "STORE", NoOperand, NoOperand, "R1", pair[1]),
       Instr("load", "LOAD", Lit(LoadOperand), NoOperand, "R1", pair[2]) >> :
      pair \in {p \in VictimAddresses \X VictimAddresses : p[1] # p[2]} }

\* the engine that holds a program is given another one: the list replaces
\* currentInstructions as the list of setExample() does
FollowProgram ==
  /\ loads < MaxRestarts
  /\ currentInstructions # << >>
  /\ \E instructions \in FollowingPrograms :
       setExample(state.currentExample, instructions)

NextFollow ==
  \/ LoadVictimProgram
  \/ FollowProgram
  \/ StepExhausted
  \/ StepPhase
  \/ reset

SpecFollow == Init /\ [][NextFollow]_vars

(***************************************************************************)
(* C25  Victim of a read miss.                                             *)
(***************************************************************************)
\* no level holds a valid line for the address
MissesEverywhere(address) ==
  \A c \in DOMAIN cpu.cache :
    \A i \in DOMAIN cpu.cache[c].lines :
      ~(cpu.cache[c].lines[i].valid /\ cpu.cache[c].lines[i].address = address)

\* this step is the EXECUTE phase of a LOAD whose address misses everywhere
ReadMissStep ==
  /\ EffectiveStep
  /\ phaseIndex = 2
  /\ currentInstructions[instructionIndex + 1].opcode = "LOAD"
  /\ currentInstructions[instructionIndex + 1].address # NoAddress
  /\ MissesEverywhere(currentInstructions[instructionIndex + 1].address)

\* among the valid lines the first one with the smallest lastAccessed, the
\* first slot when no line is valid
LruAmongValid(lines) ==
  LET valid == {i \in DOMAIN lines : lines[i].valid}
      oldest == {i \in valid : \A j \in valid : lines[i].lastAccessed <= lines[j].lastAccessed}
  IN  IF valid = {} THEN 1 ELSE CHOOSE i \in oldest : \A j \in oldest : i <= j

\* the value memory holds for the address, 0 when it holds none
BackingValue(address) ==
  IF address \in DOMAIN cpu.memory THEN cpu.memory[address].value ELSE Zero

\* C25: when checkCache misses in all levels, L1's miss counter rises by 1
\* and the line overwritten is, among L1's valid lines, the first with the
\* smallest lastAccessed, or L1's first slot when no line is valid; that line
\* becomes valid, not dirty, holds the requested address and the backing
\* memory value and is stamped with the current clockCycle.
C25_ReadMissVictim ==
  [][ ReadMissStep =>
        LET address == currentInstructions[instructionIndex + 1].address
            lines == cpu.cache[1].lines
            v == LruAmongValid(lines)
        IN  /\ state'.cpu.cache[1].misses = cpu.cache[1].misses + 1
            /\ state'.cpu.cache[1].hits = cpu.cache[1].hits
            /\ state'.cpu.cache[1].lines =
                 [lines EXCEPT ![v] = [address |-> address,
                                       value |-> BackingValue(address),
                                       valid |-> TRUE, dirty |-> FALSE,
                                       lastAccessed |-> state'.cpu.clockCycle]] ]_vars

\* A read has just missed at clock cycle 7 of the run that followed
\* setExample() and overwrote the first line, while the second line is valid
\* and carries lastAccessed 3.  No line is accessed before clock cycle 3 of
\* a run and the victim is never newer than another valid line, so the
\* first line carried lastAccessed 3 as well: the two valid lines were tied
\* and the first one in array order was taken.
C25_Witness ==
  /\ loads = 1
  /\ cpu.clockCycle = 7
  /\ cpu.currentPhase = "EXECUTE"
  /\ cpu.cache[1].isHit = "false"
  /\ cpu.instructionRegister # << >>
  /\ cpu.instructionRegister[1].opcode = "LOAD"
  /\ ValidLines(1) = {1, 2}
  /\ cpu.cache[1].lines[1].address = cpu.cache[1].activeAddress
  /\ cpu.cache[1].lines[1].lastAccessed = cpu.clockCycle
  /\ ~cpu.cache[1].lines[1].dirty
  /\ cpu.cache[1].lines[2].lastAccessed = 3

(***************************************************************************)
(* C26  Victim of a write miss.                                            *)
(***************************************************************************)
\* this step is the EXECUTE phase of a STORE to a memory address that misses
\* everywhere
WriteMissStep ==
  /\ EffectiveStep
  /\ phaseIndex = 2
  /\ currentInstructions[instructionIndex + 1].opcode = "STORE"
  /\ currentInstructions[instructionIndex + 1].destination \in RegisterNames
  /\ currentInstructions[instructionIndex + 1].address \in Addresses
  /\ MissesEverywhere(currentInstructions[instructionIndex + 1].address)

\* C26: the L1 line that updateCache overwrites on a miss is the line
\* checkCache would overwrite on a miss in the same state (the oldest of the
\* valid lines, the first slot when none is valid), and the new line is valid
\* and dirty with the written value.
C26_WriteMissVictim ==
  [][ WriteMissStep =>
        LET instruction == currentInstructions[instructionIndex + 1]
            lines == cpu.cache[1].lines
            v == LruAmongValid(lines)
        IN  state'.cpu.cache[1].lines =
              [lines EXCEPT ![v] = [address |-> instruction.address,
                                    value |-> RegisterValue(instruction.destination),
                                    valid |-> TRUE, dirty |-> TRUE,
                                    lastAccessed |-> state'.cpu.clockCycle]] ]_vars

(***************************************************************************)
(* C27  Cache coherence.                                                   *)
(***************************************************************************)
\* C27: in every reachable state every valid cache line whose address is a
\* memory address holds the value of the memory cell at that address.
C27_CacheCoherence ==
  \A c \in DOMAIN cpu.cache :
    \A i \in DOMAIN cpu.cache[c].lines :
      (cpu.cache[c].lines[i].valid /\ cpu.cache[c].lines[i].address \in Addresses)
        => cpu.cache[c].lines[i].value = Cell(cpu.memory, cpu.cache[c].lines[i].address).value

\* two lines hold what two stores wrote and a read brought in a third
C27_Witness ==
  /\ Cardinality(ValidLines(1)) = 3
  /\ \E i \in ValidLines(1) : cpu.cache[1].lines[i].dirty
                               /\ cpu.cache[1].lines[i].value = Num(LoadOperand)
  /\ \E i \in ValidLines(1) : ~cpu.cache[1].lines[i].dirty
  /\ cpu.cache[1].hits > 0

(***************************************************************************)
(* C28  L2 and L3 stay empty.                                              *)
(***************************************************************************)
\* this step is an EXECUTE phase that looks an address up in the cache: a
\* LOAD with an address into a register of the bank, or a STORE of such a
\* register to a memory address
CacheAccessStep ==
  /\ EffectiveStep
  /\ phaseIndex = 2
  /\ LET instruction == currentInstructions[instructionIndex + 1]
     IN  /\ instruction.destination \in RegisterNames
         /\ \/ /\ instruction.opcode = "LOAD"
               /\ instruction.operand1.k = "num"
               /\ instruction.address # NoAddress
            \/ /\ instruction.opcode = "STORE"
               /\ instruction.address \in Addresses

\* the accesses L1 has counted
L1Accesses(s) == s.cpu.cache[1].hits + s.cpu.cache[1].misses

\* C28: in every reachable state no line of L2 or L3 is valid and their hit
\* and miss counters are 0; every cache access adds exactly 1 to
\* L1.hits + L1.misses, reset() returns the sum to 0 and no other step
\* changes it, so the sum is the number of accesses performed.
C28_OnlyL1Used ==
  /\ \A c \in {2, 3} :
       /\ cpu.cache[c].hits = 0
       /\ cpu.cache[c].misses = 0
       /\ \A i \in DOMAIN cpu.cache[c].lines : ~cpu.cache[c].lines[i].valid
  /\ L1Accesses(state) = 0
  /\ [][ /\ \A c \in {2, 3} :
              /\ state'.cpu.cache[c].hits = 0
              /\ state'.cpu.cache[c].misses = 0
              /\ \A i \in DOMAIN state'.cpu.cache[c].lines :
                   ~state'.cpu.cache[c].lines[i].valid
         /\ L1Accesses(state') =
              IF CacheAccessStep THEN L1Accesses(state) + 1
              ELSE IF resets' # resets THEN 0
              ELSE L1Accesses(state) ]_vars

\* L1 has counted hits and misses of reads and writes over two runs
C28_Witness ==
  /\ cpu.cache[1].hits >= 2
  /\ cpu.cache[1].misses >= 2
  /\ loads = 1
  /\ Cardinality(ValidLines(1)) >= 2
  /\ \A c \in {2, 3} : \A i \in DOMAIN cpu.cache[c].lines : ~cpu.cache[c].lines[i].valid

(***************************************************************************)
(* C29  The PC register and the program counter.                           *)
(***************************************************************************)
\* C29: in every reachable state the value of the register named PC equals
\* cpu.programCounter.
C29_PCRegisterConsistent ==
  RegisterValue("PC") = Num(cpu.programCounter)

(***************************************************************************)
(* C30  Output of the traffic-light program.                               *)
(***************************************************************************)
\* the traffic-light program is loaded and has been stepped to completion
TrafficProgramCompleted ==
  /\ state.currentExample = "TRAFFIC_LIGHT"
  /\ N >= 3
  /\ currentInstructions[1].id = "load_sensor"
  /\ instructionIndex = N

\* the code of the light that follows the light with code light
\* (RED = 0, YELLOW = 1, GREEN = 2)
NextLightCode(light, sensor) ==
  IF light = 0 /\ sensor THEN 2
  ELSE IF light = 2 THEN 1
  ELSE 0

\* C30: after setExample(TRAFFIC_LIGHT, currentState, sensorInput) in any
\* reachable state and stepping the program to completion, R3 holds the code
\* of the next light state: RED with sensor -> GREEN, GREEN -> YELLOW,
\* YELLOW -> RED, RED without sensor -> RED.
C30_TrafficLightOutput ==
  TrafficProgramCompleted =>
    RegisterValue("R3") = Num(NextLightCode(currentInstructions[2].operand1.n,
                                            currentInstructions[1].operand1.n = 1))

====
